---- MODULE Spec2Model ----
(***************************************************************************)
(* google-font-installer: the catalog loader (lib/google-font-list.js) and *)
(* the on-disk cache store (lib/cache.js), as a state machine.             *)
(*                                                                         *)
(* Text (a file's content, an HTTP body) is a sequence of JSON tokens, so  *)
(* JSON.stringify and JSON.parse are real conversions.  Asynchronous code  *)
(* is cut at its await points: one action per continuation.                *)
(***************************************************************************)
EXTENDS Integers, Sequences, FiniteSets, TLC

\* ------------------------------------------------------------- bounds
\* load operations one GoogleFontList may start
MaxLoads == 2
\* clock advances per behaviour
MaxTicks == 1
\* direct writeCache() calls per behaviour of the cache store on its own
MaxWrites == 2
\* characters of a search term
MaxTermLen == 3
\* pieces of a variant id
MaxVariantLen == 3
\* the longest list of variants a batch is asked for
MaxRequested == 3
\* the longest family argument of a command, in characters
MaxArgLen == 4

\* ---------------------------------------------------- program constants
CACHE_TTL_MS == 86400000
CACHE_ENABLED == TRUE

\* Raw catalog records (FontData), as the upstream API and the cache hold
\* them.  An empty string stands for a field the record does not have.
FontData ==
  << [familyName |-> "", family |-> "Roboto", category |-> "sans-serif"],
     [familyName |-> "Lato", family |-> "", category |-> "serif"] >>

RecIds == 1..Len(FontData)

\* Arrays of records, by record id: an empty one and one with records
Catalogs == { <<>>, <<2, 1>> }

\* googleFont(fontData): Object.assign(this, fontData), then family is
\* fontData.familyName || fontData.family || ''.
googleFont(id) ==
  LET fontData == FontData[id] IN
  [familyName |-> fontData.familyName,
   family |-> IF fontData.familyName # "" THEN fontData.familyName
              ELSE fontData.family,
   category |-> fontData.category]

\* ------------------------------------------------------------ JSON text
Tok(t, k, n) == [t |-> t, k |-> k, n |-> n]
LBrace == Tok("{", "", 0)
RBrace == Tok("}", "", 0)
LBrack == Tok("[", "", 0)
RBrack == Tok("]", "", 0)
KeyTok(k) == Tok("key", k, 0)
NumTok(n) == Tok("num", "", n)
StrTok == Tok("str", "", 0)
NullTok == Tok("null", "", 0)
RecTok(id) == Tok("rec", "", id)
\* text that is no JSON at all ('invalid json')
JunkTok == Tok("junk", "", 0)

RecToks(list) == [i \in 1..Len(list) |-> RecTok(list[i])]

\* A JSON value: t is its type, n its number, v its elements, and for an
\* object the two members the program reads.
Member(t, n, v) == [t |-> t, n |-> n, v |-> v]
Absent == Member("absent", 0, <<>>)
JsonValue(ok, root, elems, fetchedAt, fonts) ==
  [ok |-> ok, root |-> root, elems |-> elems, fetchedAt |-> fetchedAt, fonts |-> fonts]
SyntaxError == JsonValue(FALSE, "none", <<>>, Absent, Absent)
EmptyObject == JsonValue(TRUE, "object", <<>>, Absent, Absent)

\* index of the first "]" of ts at or after position i, 0 if there is none
RECURSIVE CloseAt(_, _)
CloseAt(ts, i) ==
  IF i > Len(ts) THEN 0
  ELSE IF ts[i].t = "]" THEN i
  ELSE CloseAt(ts, i + 1)

PutMember(obj, key, val) ==
  IF key = "fetchedAt" THEN [obj EXCEPT !.fetchedAt = val]
  ELSE IF key = "fonts" THEN [obj EXCEPT !.fonts = val]
  ELSE obj

\* the members of an object, left to right; a repeated key keeps the last
RECURSIVE ParseMembers(_, _)
ParseMembers(ts, obj) ==
  IF ts = <<>> THEN obj
  ELSE IF Len(ts) < 2 \/ ts[1].t # "key" THEN SyntaxError
  ELSE IF ts[2].t = "num"
    THEN ParseMembers(SubSeq(ts, 3, Len(ts)),
                      PutMember(obj, ts[1].k, Member("number", ts[2].n, <<>>)))
  ELSE IF ts[2].t = "str"
    THEN ParseMembers(SubSeq(ts, 3, Len(ts)),
                      PutMember(obj, ts[1].k, Member("string", 0, <<>>)))
  ELSE IF ts[2].t = "null"
    THEN ParseMembers(SubSeq(ts, 3, Len(ts)),
                      PutMember(obj, ts[1].k, Member("null", 0, <<>>)))
  ELSE IF ts[2].t = "["
    THEN LET c == CloseAt(ts, 3) IN
         IF c = 0 \/ \E i \in 3..(c - 1) : ts[i].t # "rec" THEN SyntaxError
         ELSE ParseMembers(SubSeq(ts, c + 1, Len(ts)),
                PutMember(obj, ts[1].k,
                  Member("array", 0, [i \in 1..(c - 3) |-> ts[i + 2].n])))
  ELSE SyntaxError

\* JSON.parse(text)
JSONparse(text) ==
  LET n == Len(text) IN
  IF n = 1 /\ text[1].t = "null"
    THEN JsonValue(TRUE, "null", <<>>, Absent, Absent)
  ELSE IF n = 1 /\ text[1].t \in {"num", "str"}
    THEN JsonValue(TRUE, "scalar", <<>>, Absent, Absent)
  ELSE IF n >= 2 /\ text[1].t = "[" /\ text[n].t = "]"
          /\ \A i \in 2..(n - 1) : text[i].t = "rec"
    THEN JsonValue(TRUE, "array", [i \in 1..(n - 2) |-> text[i + 1].n], Absent, Absent)
  ELSE IF n >= 2 /\ text[1].t = "{" /\ text[n].t = "}"
    THEN ParseMembers(SubSeq(text, 2, n - 1), EmptyObject)
  ELSE SyntaxError

\* JSON.stringify({ fetchedAt: fetchedAt, fonts: fonts })
StringifyPayload(fetchedAt, fonts) ==
  <<LBrace, KeyTok("fetchedAt"), NumTok(fetchedAt), KeyTok("fonts"), LBrack>>
    \o RecToks(fonts) \o <<RBrack, RBrace>>

\* JSON.stringify(list) of a records array
StringifyList(list) == <<LBrack>> \o RecToks(list) \o <<RBrack>>

\* ------------------------------------------------------------ strings
\* A string is a sequence of characters.  Space and tab stand for the
\* white space String.prototype.trim() strips; only the first is ' '.
\* In a variant id a run of characters that stays together ("400",
\* "italic", "NORMAL") is one element: no such run is the start of another,
\* so two sequences are equal exactly when the strings are.
Chars == {"a", "B", " ", "\t"}
WhiteSpace == {" ", "\t"}

\* a string value, or undefined
Str(s) == [def |-> TRUE, s |-> s]
Undefined == [def |-> FALSE, s |-> <<>>]

\* a field name, or undefined
Field(name) == [def |-> TRUE, name |-> name]
NoField == [def |-> FALSE, name |-> ""]

\* c.toLowerCase()
LowerChar(c) ==
  IF c = "A" THEN "a"
  ELSE IF c = "B" THEN "b"
  ELSE IF c = "NORMAL" THEN "normal"
  ELSE IF c = "TTF" THEN "ttf"
  ELSE c

\* s.toLowerCase()
toLowerCase(s) == [i \in 1..Len(s) |-> LowerChar(s[i])]

\* s.trimStart() and s.trimEnd()
RECURSIVE trimStart(_)
trimStart(s) ==
  IF s # <<>> /\ s[1] \in WhiteSpace THEN trimStart(Tail(s)) ELSE s

RECURSIVE trimEnd(_)
trimEnd(s) ==
  IF s # <<>> /\ s[Len(s)] \in WhiteSpace THEN trimEnd(SubSeq(s, 1, Len(s) - 1)) ELSE s

\* s.trim()
trim(s) == trimEnd(trimStart(s))

\* index of the first character of s, at or after i, that is in seps;
\* Len(s) + 1 if there is none
RECURSIVE NextSep(_, _, _)
NextSep(s, i, seps) ==
  IF i > Len(s) THEN Len(s) + 1
  ELSE IF s[i] \in seps THEN i
  ELSE NextSep(s, i + 1, seps)

\* the pieces of s between the characters of seps, empty pieces included
RECURSIVE SplitOn(_, _)
SplitOn(s, seps) ==
  LET k == NextSep(s, 1, seps) IN
  IF k > Len(s) THEN <<s>>
  ELSE <<SubSeq(s, 1, k - 1)>> \o SplitOn(SubSeq(s, k + 1, Len(s)), seps)

\* s.split(' ')
split(s) == SplitOn(s, {" "})

\* val.indexOf(subTerm) !== -1
Contains(val, subTerm) ==
  \E i \in 0..(Len(val) - Len(subTerm)) : SubSeq(val, i + 1, i + Len(subTerm)) = subTerm

\* ----------------------------------------------------------- variables
VARIABLES
  now,              \* Date.now()
  disk,             \* ~/.gfcli/cache.json: [exists, content]
  writes,           \* the writeCache() calls, in call order
  lastWrite,        \* the payload the file holds, when a writeFile put it there
  lastRead,         \* the last direct readCache() call
  lastSettled,      \* the writeCache() call that settled last, and how
  data,             \* GoogleFontList.data
  _loading,         \* GoogleFontList._loading
  _loadingPromise,  \* GoogleFontList._loadingPromise: a load id, 0 for null
  loads,            \* the load operations (the promises load() creates)
  lastCall,         \* the last load() call: what it was given, what it returned
  errorListener,    \* the list has an 'error' listener
  _filterField,     \* GoogleFontList._filterField of the list
  _filterTerm,      \* GoogleFontList._filterTerm of the list
  view,             \* the last view searchFont or getFont handed to its callback
  variant,          \* the last _normalizeVariant() call: its input and result
  req,              \* a Request: its fields, its stream and what it emitted
  batch,            \* a saveAtAsync or installAsync call of a googleFont
  cli,              \* a run of the command line
  stage             \* saveAt operations running at once, and the files they share

cacheVars == <<now, disk, writes, lastWrite, lastRead, lastSettled>>
listVars == <<data, _loading, _loadingPromise, loads, lastCall, errorListener>>
viewVars == <<_filterField, _filterTerm, view>>
otherVars == <<viewVars, variant, req, batch, cli, stage>>
vars == <<now, disk, writes, lastWrite, lastRead, lastSettled,
          data, _loading, _loadingPromise, loads, lastCall, errorListener,
          otherVars>>

\* ----------------------------------------------------------- the clock
NowInit == CACHE_TTL_MS

\* clock advances so far: each is by 1 ms or by one TTL
TicksDone == ((now - NowInit) \div CACHE_TTL_MS) + ((now - NowInit) % CACHE_TTL_MS)

Tick(d) ==
  /\ ~lastRead.done
  /\ TicksDone < MaxTicks
  /\ now' = now + d
  /\ UNCHANGED <<disk, writes, lastWrite, lastRead, lastSettled>>
  /\ UNCHANGED listVars
  /\ UNCHANGED otherVars

\* ------------------------------------------------------- lib/cache.js
NoFile == [exists |-> FALSE, content |-> <<>>]
File(text) == [exists |-> TRUE, content |-> text]

Null == Member("null", 0, <<>>)
ArrayOf(list) == Member("array", 0, list)

\* !parsed: null, 0, '' and false are falsy
Falsy(parsed) == parsed.root = "null"

\* age > CACHE_TTL_MS: the entry is too old
ExpiredMut(age) == age >= CACHE_TTL_MS
Expired(age) == age > CACHE_TTL_MS

\* an exception, where a value was expected
Throws == Member("throws", 0, <<>>)

\* the try block of readCache(), when readFile settles on `file` at time
\* `clock`.  A missing or unreadable file makes readFile reject, and
\* JSON.parse throws on text that is no JSON.
readCacheTry(file, clock) ==
  IF ~file.exists THEN Throws
  ELSE LET parsed == JSONparse(file.content) IN
       IF ~parsed.ok THEN Throws
       ELSE IF Falsy(parsed) \/ parsed.fonts.t # "array"
               \/ parsed.fetchedAt.t # "number" THEN Null
       ELSE IF Expired(clock - parsed.fetchedAt.n) THEN Null
       ELSE ArrayOf(parsed.fonts.v)

\* readCache(): catch (err) { return null }
readCacheMut(file, clock) == readCacheTry(file, clock)
readCache(file, clock) ==
  IF readCacheTry(file, clock) = Throws THEN Null ELSE readCacheTry(file, clock)

\* nothing was written yet, or the last write that settled failed and cut
\* the file short
NoWrite == [ok |-> FALSE, fetchedAt |-> 0, fonts |-> <<>>]

\* the store is watched up to one direct readCache() call
Watching == ~lastRead.done

\* a direct readCache() call, settled
ReadCacheCall ==
  /\ Watching
  /\ lastRead' = [done |-> TRUE,
                  file |-> disk,
                  at |-> now,
                  after |-> lastWrite,
                  settled |-> lastSettled,
                  result |-> readCache(disk, now)]
  /\ UNCHANGED <<now, disk, writes, lastWrite, lastSettled>>
  /\ UNCHANGED listVars
  /\ UNCHANGED otherVars

\* writeCache(fonts) up to its first await: ensureDir() has called mkdir
NewWrite(by, fonts) ==
  [by |-> by, fonts |-> fonts, pc |-> "mkdir", mkdirOk |-> FALSE, fetchedAt |-> 0]

\* a writeCache() call that has settled
DoneWrite == [by |-> 0, fonts |-> <<>>, pc |-> "done", mkdirOk |-> FALSE, fetchedAt |-> 0]

\* how a writeCache() call settled; of a direct call also what it was given
\* and when it settled, which its caller knows
Settled(write, writeOk, outcome) ==
  [failed |-> ~write.mkdirOk \/ ~writeOk, outcome |-> outcome,
   fonts |-> IF write.by = 0 THEN write.fonts ELSE <<>>,
   at |-> IF write.by = 0 THEN now ELSE 0]
NoneSettled == [failed |-> FALSE, outcome |-> "none", fonts |-> <<>>, at |-> 0]

\* a direct writeCache(fonts) call, by a caller that awaits each call
WriteCacheCall(fonts) ==
  /\ Watching
  /\ Len(writes) < MaxWrites
  /\ \A w \in 1..Len(writes) : writes[w].pc = "done"
  /\ writes' = Append(writes, NewWrite(0, fonts))
  /\ UNCHANGED <<now, disk, lastWrite, lastRead, lastSettled>>
  /\ UNCHANGED listVars
  /\ UNCHANGED otherVars

\* ensureDir(): mkdir settles; its error is swallowed
ensureDirMut(ok) == IF ok THEN "writeFile" ELSE "rejected"
ensureDir(ok) == "writeFile"

\* what the promise of writeCache() does when writeFile settles: the catch
\* swallows the error
writeCacheSettlesMut(ok) == IF ok THEN "resolved" ELSE "rejected"
writeCacheSettles(ok) == "resolved"

\* fs.writeFile(CACHE_FILE, text) that succeeds: the text is the whole file
writeFileMut(file, text) == File(file.content \o text)
writeFile(file, text) == File(text)

\* mkdir settles; then payload = { fetchedAt: Date.now(), fonts } and
\* writeFile is called
EnsureDirDone(w, ok) ==
  /\ Watching
  /\ w \in 1..Len(writes)
  /\ writes[w].pc = "mkdir"
  /\ writes' = [writes EXCEPT ![w] =
       IF ensureDir(ok) = "writeFile"
       THEN [@ EXCEPT !.pc = "writeFile", !.mkdirOk = ok, !.fetchedAt = now]
       ELSE DoneWrite]
  /\ lastSettled' =
       IF ensureDir(ok) = "writeFile" THEN lastSettled
       ELSE Settled([writes[w] EXCEPT !.mkdirOk = ok], FALSE, "rejected")
  /\ UNCHANGED <<now, disk, lastWrite, lastRead>>
  /\ UNCHANGED listVars
  /\ UNCHANGED otherVars

\* writeFile settles.  A failed write leaves the file as it was, or cut
\* short (what it holds is then no JSON).
WriteFileDone(w, ok, cut) ==
  /\ Watching
  /\ w \in 1..Len(writes)
  /\ writes[w].pc = "writeFile"
  /\ ok => ~cut
  /\ disk' = IF ok
             THEN writeFile(disk, StringifyPayload(writes[w].fetchedAt, writes[w].fonts))
             ELSE IF cut THEN File(<<JunkTok>>) ELSE disk
  /\ lastWrite' = IF ok
                  THEN [ok |-> TRUE, fetchedAt |-> writes[w].fetchedAt, fonts |-> writes[w].fonts]
                  ELSE IF cut THEN NoWrite ELSE lastWrite
  /\ writes' = [writes EXCEPT ![w] = DoneWrite]
  /\ lastSettled' = Settled(writes[w], ok, writeCacheSettles(ok))
  /\ UNCHANGED <<now, lastRead>>
  /\ UNCHANGED listVars
  /\ UNCHANGED otherVars

\* files the store may find when the program starts
OtherFiles ==
  { NoFile,
    File(<<JunkTok>>),
    File(<<NullTok>>),
    File(<<LBrack, RecTok(1), RBrack>>),
    File(<<LBrace, KeyTok("fetchedAt"), NumTok(0), KeyTok("notFonts"), LBrack, RBrack, RBrace>>),
    File(<<LBrace, KeyTok("fonts"), LBrack, RecTok(1), RBrack, RBrace>>),
    File(<<LBrace, KeyTok("fetchedAt"), StrTok, KeyTok("fonts"), LBrack, RecTok(1), RBrack, RBrace>>),
    File(<<LBrace, KeyTok("fetchedAt"), NumTok(0), KeyTok("fonts"), StrTok, RBrace>>) }

\* payloads an earlier run wrote: at the TTL boundary, or one ms younger
PayloadFiles ==
  { File(StringifyPayload(f, c)) : f \in {0, 1}, c \in Catalogs }

\* what the file may be when a list is constructed: missing, damaged, or a
\* payload of an earlier run
StartFiles == { NoFile, File(<<JunkTok>>) } \cup PayloadFiles

NoRead ==
  [done |-> FALSE, file |-> NoFile, at |-> 0, after |-> NoWrite, settled |-> NoneSettled,
   result |-> Null]

\* ------------------------------------------- lib/google-font-list.js
\* a load operation: the promise one load() call creates, its async
\* function's position, and what it did
NoLoad ==
  [st |-> "unused", pc |-> "none", cacheReads |-> 0, netGets |-> 0,
   cache |-> "none", body |-> "none", signal |-> "none",
   fromCache |-> "none", err |-> "none", emitted |-> "none",
   data0 |-> <<>>, disk0 |-> NoFile]

\* a load operation that settled before the latest one started: only how it
\* settled is kept
Past(load) ==
  IF load.st \in {"resolved", "rejected"} THEN [NoLoad EXCEPT !.st = load.st, !.pc = "past"]
  ELSE load

\* the async function of load(forceRefresh), run to its first await: either
\* Cache.readCache() is called, or downloadList() builds the Request
Started(forceRefresh, list, file) ==
  IF ~forceRefresh /\ CACHE_ENABLED
  THEN [NoLoad EXCEPT !.st = "pending", !.pc = "readCache", !.cacheReads = 1,
                      !.data0 = list, !.disk0 = file]
  ELSE [NoLoad EXCEPT !.st = "pending", !.pc = "download", !.netGets = 1,
                      !.data0 = list, !.disk0 = file]

\* the load operation in flight, 0 if there is none
InFlight ==
  IF \E p \in 1..MaxLoads : loads[p].st = "pending"
  THEN CHOOSE p \in 1..MaxLoads :
         /\ loads[p].st = "pending"
         /\ \A q \in 1..MaxLoads : loads[q].st = "pending" => q <= p
  ELSE 0

LoadCall(forceRefresh, during, ret) ==
  [force |-> forceRefresh, during |-> during, ret |-> ret]

\* if (self._loadingPromise) return self._loadingPromise
LoadReturnsExistingMut == FALSE
LoadReturnsExisting == _loadingPromise # 0

\* finally { self._loading = false; self._loadingPromise = null }
LoadFinallyMut == _loading' = FALSE /\ UNCHANGED _loadingPromise
LoadFinally == _loading' = FALSE /\ _loadingPromise' = 0

\* the ids of the load operations started so far
Used == { p \in 1..MaxLoads : loads[p].st # "unused" }

\* load(forceRefresh)
Load(forceRefresh) ==
  /\ IF LoadReturnsExisting
     THEN /\ lastCall' = LoadCall(forceRefresh, InFlight, _loadingPromise)
          /\ UNCHANGED <<_loading, _loadingPromise, loads>>
     ELSE /\ Cardinality(Used) < MaxLoads
          /\ LET p == Cardinality(Used) + 1 IN
             /\ _loading' = TRUE
             /\ _loadingPromise' = p
             /\ loads' = [q \in 1..MaxLoads |->
                           IF q = p THEN Started(forceRefresh, data, disk)
                           ELSE Past(loads[q])]
             /\ lastCall' = LoadCall(forceRefresh, InFlight, p)
  /\ UNCHANGED <<data, errorListener>>
  /\ UNCHANGED cacheVars
  /\ UNCHANGED otherVars

\* populate(list): one googleFont per record is pushed onto data
populateMut(list) == [i \in 1..Len(list) |-> googleFont(list[i])]
populate(list) == data \o [i \in 1..Len(list) |-> googleFont(list[i])]

\* the load's promise resolves with { fromCache: fromCache }
Resolved(load, fromCache) ==
  [load EXCEPT !.st = "resolved", !.pc = "done", !.fromCache = fromCache]

\* the load's promise rejects with error
Rejected(load, error) ==
  [load EXCEPT !.st = "rejected", !.pc = "done", !.err = error]

\* what the cache read gives the load: cached && Array.isArray(cached)
CacheHitMut(cached) == FALSE
CacheHit(cached) == cached.t = "array"

\* what readFile and JSON.parse make of the file: nothing, or a value
FileState(file) ==
  IF ~file.exists \/ ~JSONparse(file.content).ok THEN "unreadable" ELSE "read"

\* Cache.readCache() settles and the async function of load p goes on
ReadCacheDone(p) ==
  /\ loads[p].st = "pending"
  /\ loads[p].pc = "readCache"
  /\ LET cached == readCache(disk, now)
         load == [loads[p] EXCEPT !.cache = FileState(disk)]
     IN
     IF cached = Throws
     THEN /\ loads' = [loads EXCEPT ![p] = Rejected(load, "cache error")]
          /\ LoadFinally
          /\ UNCHANGED data
     ELSE IF CacheHit(cached)
     THEN /\ data' = populate(cached.v)
          /\ loads' = [loads EXCEPT ![p] =
               Resolved([load EXCEPT !.cache = "hit", !.emitted = "success"], "true")]
          /\ LoadFinally
     ELSE /\ loads' = [loads EXCEPT ![p] =
               [load EXCEPT !.pc = "download", !.netGets = @ + 1]]
          /\ UNCHANGED <<data, _loading, _loadingPromise>>
  /\ UNCHANGED <<lastCall, errorListener>>
  /\ UNCHANGED cacheVars
  /\ UNCHANGED otherVars

\* parseRawData(rawData): how the body parses
BodyKind(rawData) ==
  LET jsonList == JSONparse(rawData) IN
  IF ~jsonList.ok THEN "unparsable"
  ELSE IF jsonList.root = "array" THEN "array"
  ELSE "nonarray"

\* parseRawData: Cache.writeCache(jsonList) is called if Array.isArray(jsonList)
WritesCacheMut(kind) == kind # "unparsable"
WritesCache(kind) == kind = "array"

\* self.emit('error', error): an emitter without an 'error' listener throws
EmitErrorThrows == ~errorListener

\* what downloadList does once parseRawData(data) has returned:
\* resolve({ fromCache: false })
AfterParseMut(kind) == IF kind = "array" THEN "resolved" ELSE "rejected"
AfterParse(kind) == "resolved"

\* the Request emits 'success' with the body: parseRawData, then resolve.
\* A body that is no JSON array makes the list emit an error flagged
\* isInvalidJson; when emit throws, resolve is never reached and the
\* promise stays pending.
RequestSuccess(p, rawData) ==
  /\ loads[p].st = "pending"
  /\ loads[p].pc = "download"
  /\ LET kind == BodyKind(rawData)
         jsonList == JSONparse(rawData).elems
         load == [loads[p] EXCEPT !.body = kind]
     IN
     /\ writes' = IF WritesCache(kind) THEN Append(writes, NewWrite(p, jsonList))
                  ELSE writes
     /\ IF kind = "array"
        THEN /\ data' = populate(jsonList)
             /\ loads' = [loads EXCEPT ![p] =
                  Resolved([load EXCEPT !.emitted = "success"], "false")]
             /\ LoadFinally
        ELSE /\ UNCHANGED data
             /\ IF EmitErrorThrows
                THEN /\ loads' = [loads EXCEPT ![p] =
                          [load EXCEPT !.pc = "abandoned", !.emitted = "isInvalidJson"]]
                     /\ UNCHANGED <<_loading, _loadingPromise>>
                ELSE /\ loads' = [loads EXCEPT ![p] =
                          IF AfterParse(kind) = "resolved"
                          THEN Resolved([load EXCEPT !.emitted = "isInvalidJson"], "false")
                          ELSE Rejected([load EXCEPT !.emitted = "isInvalidJson"],
                                        "invalid format")]
                     /\ LoadFinally
  /\ UNCHANGED <<lastCall, errorListener>>
  /\ UNCHANGED <<now, disk, lastWrite, lastRead, lastSettled>>
  /\ UNCHANGED otherVars

\* the errors a Request signals
TransportErrors ==
  {"invalid url", "connection failed", "timeout", "bad response", "no redirects left"}

\* request.on('error', ...): reject(error)
OnRequestErrorMut(load, error) == Resolved(load, "false")
OnRequestError(load, error) == Rejected(load, error)

\* the Request emits 'error'
RequestError(p, error) ==
  /\ loads[p].st = "pending"
  /\ loads[p].pc = "download"
  /\ loads' = [loads EXCEPT ![p] = OnRequestError([@ EXCEPT !.signal = error], error)]
  /\ LoadFinally
  /\ UNCHANGED <<data, lastCall, errorListener>>
  /\ UNCHANGED cacheVars
  /\ UNCHANGED otherVars

\* list.on('error', listener)
OnError ==
  /\ ~errorListener
  /\ errorListener' = TRUE
  /\ UNCHANGED <<data, _loading, _loadingPromise, loads, lastCall>>
  /\ UNCHANGED cacheVars
  /\ UNCHANGED otherVars

\* ------------------------------------------- lib/google-font.js
\* the variant ids a caller may pass are made of these
VariantChars == {"400", "700", "normal", "NORMAL", "italic", " ", "\t"}

RECURSIVE VariantStrings(_)
VariantStrings(n) ==
  IF n = 0 THEN { <<>> }
  ELSE LET shorter == VariantStrings(n - 1) IN
       shorter \cup { Append(t, c) : t \in shorter, c \in VariantChars }

\* a variant argument: a string, or a number
StringArg(s) == [isNumber |-> FALSE, n |-> 0, s |-> s]
NumberArg(n) == [isNumber |-> TRUE, n |-> n, s |-> <<>>]
VariantArgs ==
  { StringArg(s) : s \in VariantStrings(MaxVariantLen) }
    \cup { NumberArg(n) : n \in {400, 700} }

\* variant.toString(): a number gives its decimal digits
toString(arg) ==
  IF ~arg.isNumber THEN arg.s
  ELSE IF arg.n = 400 THEN <<"400">>
  ELSE <<"700">>

\* const v = variant.toString().trim().toLowerCase()
NormalizedInputMut(arg) == trim(toString(arg))
NormalizedInput(arg) == toLowerCase(trim(toString(arg)))

\* _normalizeVariant(variant)
_normalizeVariant(arg) ==
  LET v == NormalizedInput(arg) IN
  IF v = <<"400">> \/ v = <<"normal">> THEN <<"regular">>
  ELSE IF v = <<"400", "italic">> \/ v = <<"normal", "italic">> THEN <<"italic">>
  ELSE v

NoVariant == [done |-> FALSE, arg |-> StringArg(<<>>), result |-> <<>>]

\* ------------------------------------------------- lib/request.js
\* this.redirect = 3
REDIRECTS == 3

RedirectStatuses == {301, 302, 303, 307, 308}
\* the status codes a server may answer with
Statuses == RedirectStatuses \cup {200, 204, 404}
\* res.headers.location: missing, a URL init() accepts, or one it refuses
Locations == {"none", "ok", "bad"}

\* what the Request emits: 'success', or 'error' with an Error
Event(ev, kind, statusCode) == [ev |-> ev, kind |-> kind, statusCode |-> statusCode]
Success == Event("success", "body", 0)
InvalidUrlError == Event("error", "invalid url", 0)
TimeoutError == Event("error", "timeout", 0)
ConnectionFailed == Event("error", "connection failed", 0)

\* new Error('Bad response: ' + res.statusCode), error.statusCode = res.statusCode
BadResponseMut(status) == Event("error", "bad response", 0)
BadResponse(status) == Event("error", "bad response", status)

\* the uri handed to new Request(uri), as new URL(uri) sees it: whether it
\* parses, its protocol and its hostname
Uri(parses, protocol, hostname) ==
  [parses |-> parses, protocol |-> protocol, hostname |-> hostname]
NoUri == Uri(FALSE, "", "")
\* 'not-a-valid-url', 'http://host/f.ttf', 'https://host/f.ttf',
\* 'ftp://host/f.ttf' and 'file:///f.ttf'
Uris ==
  {NoUri, Uri(TRUE, "http:", "host"), Uri(TRUE, "https:", "host"),
   Uri(TRUE, "ftp:", "host"), Uri(TRUE, "file:", "")}

\* _getProperLibrary(uri): https for 'https:', http for everything else
_getProperLibrary(uri) == IF uri.protocol = "https:" THEN "https" ELSE "http"

\* the try block of init() reaches the end without a throw: new URL(uri)
\* parses, protocol and hostname are not empty, and lib.get(uri) takes the
\* protocol (http.get and https.get throw on a protocol that is not theirs)
AcceptedMut(uri) == uri.parses
Accepted(uri) ==
  /\ uri.parses
  /\ uri.protocol # "" /\ uri.hostname # ""
  /\ uri.protocol = _getProperLibrary(uri) \o ":"

\* what file-type sniffs from the downloaded bytes
MimeTypes == {"application/font-sfnt", "font/woff2", "text/html", "undefined"}

\* no Request was constructed
NoRequest ==
  [made |-> FALSE, uri |-> NoUri, redirect |-> 0, gets |-> 0, pc |-> "none",
   ended |-> FALSE, emitted |-> <<>>, answers |-> <<>>,
   _mimeType |-> "undefined", sniffed |-> FALSE]

\* init(uri): lib.get(uri, ...) with a timeout and an error handler, or, for
\* a uri that is refused, handleError() in a setImmediate
init(r, uriOk) ==
  IF uriOk THEN [r EXCEPT !.gets = @ + 1, !.pc = "waiting"]
  ELSE [r EXCEPT !.pc = "immediate"]

\* new Request(uri)
Request(uriOk) ==
  init([NoRequest EXCEPT !.made = TRUE, !.redirect = REDIRECTS], uriOk)

\* new Request(uri) of a given uri
NewRequest(uri) == [Request(Accepted(uri)) EXCEPT !.uri = uri]

\* self.emit(event)
Emit(r, event) == [r EXCEPT !.emitted = Append(@, event)]

\* handleError(error): emit('error', error), then end()
handleError(r, error) ==
  [Emit(r, error) EXCEPT !.ended = TRUE, !.pc = "done"]

\* the redirect is followed: the status is a redirect status, there is a
\* Location and self.redirect > 0
CanFollowMut(r, status, location) ==
  status \in RedirectStatuses /\ location # "none" /\ r.redirect >= 0
CanFollow(r, status, location) ==
  status \in RedirectStatuses /\ location # "none" /\ r.redirect > 0

\* handleResponse(res, originalUri)
handleResponse(r, status, location) ==
  IF CanFollow(r, status, location)
  THEN init([r EXCEPT !.redirect = @ - 1], location = "ok")
  ELSE IF status = 200 THEN [r EXCEPT !.pc = "reading"]
  ELSE handleError(r, BadResponse(status))

\* the server answers the GET in flight
HandleResponse(status, location) ==
  /\ req.pc = "waiting"
  /\ req' = handleResponse([req EXCEPT !.answers = Append(@, [status |-> status,
                                                               location |-> location])],
                           status, location)
  /\ UNCHANGED <<viewVars, variant, batch, cli, stage>>
  /\ UNCHANGED cacheVars
  /\ UNCHANGED listVars

\* the setImmediate of init() runs: handleError(uri + ' is an invalid url.')
InvalidUrl ==
  /\ req.pc = "immediate"
  /\ req' = handleError(req, InvalidUrlError)
  /\ UNCHANGED <<viewVars, variant, batch, cli, stage>>
  /\ UNCHANGED cacheVars
  /\ UNCHANGED listVars

\* the handler of res.on('end') up to its await of fileType.fromBuffer
OnEndMut(r) == [Emit(r, Success) EXCEPT !.pc = "sniffing"]
OnEnd(r) == [r EXCEPT !.pc = "sniffing"]

\* res.on('end'): the body is complete and sniffing starts
ResponseEnd ==
  /\ req.pc = "reading"
  /\ req' = OnEnd(req)
  /\ UNCHANGED <<viewVars, variant, batch, cli, stage>>
  /\ UNCHANGED cacheVars
  /\ UNCHANGED listVars

\* self._mimeType = await fileType.fromBuffer(fullBuffer), in a try whose
\* catch is empty: a type, or undefined when none is found or it throws
Sniffed(mime) ==
  /\ req.pc = "sniffing"
  /\ req' = [req EXCEPT !._mimeType = mime, !.sniffed = TRUE, !.pc = "sniffed"]
  /\ UNCHANGED <<viewVars, variant, batch, cli, stage>>
  /\ UNCHANGED cacheVars
  /\ UNCHANGED listVars

\* self.emit('success', message): the listeners run before end() is called
EmitSuccess ==
  /\ req.pc = "sniffed"
  /\ req' = [Emit(req, Success) EXCEPT !.pc = "succeeded"]
  /\ UNCHANGED <<viewVars, variant, batch, cli, stage>>
  /\ UNCHANGED cacheVars
  /\ UNCHANGED listVars

\* self.end() after the success
End ==
  /\ req.pc = "succeeded"
  /\ req' = [req EXCEPT !.ended = TRUE, !.pc = "done"]
  /\ UNCHANGED <<viewVars, variant, batch, cli, stage>>
  /\ UNCHANGED cacheVars
  /\ UNCHANGED listVars

\* req.setTimeout(10000, ...): emit('error', 'Request timeout.'), req.destroy();
\* a ClientRequest destroyed before its response emits 'error' (socket hang
\* up), one destroyed after it only aborts the response
Timeout ==
  /\ req.pc \in {"waiting", "reading"}
  /\ req' = [Emit(req, TimeoutError) EXCEPT
               !.pc = IF req.pc = "waiting" THEN "destroyed" ELSE "aborted"]
  /\ UNCHANGED <<viewVars, variant, batch, cli, stage>>
  /\ UNCHANGED cacheVars
  /\ UNCHANGED listVars

\* req.on('error'): emit('error', 'Connection to ... failed: ...'); the
\* ClientRequest fails while it waits, or because it was destroyed
ConnectionError ==
  /\ req.pc \in {"waiting", "destroyed"}
  /\ req' = [Emit(req, ConnectionFailed) EXCEPT !.pc = "failed"]
  /\ UNCHANGED <<viewVars, variant, batch, cli, stage>>
  /\ UNCHANGED cacheVars
  /\ UNCHANGED listVars

\* ------------------------- lib/system-font.js and the variant batches
\* the ids a caller may request a variant by
BatchIds ==
  {<<"regular">>, <<"700">>, <<"400">>, <<"bogus-variant">>, <<"constructor">>}

RECURSIVE IdLists(_)
IdLists(n) ==
  IF n = 0 THEN { <<>> }
  ELSE LET shorter == IdLists(n - 1) IN
       shorter \cup { Append(l, id) : l \in shorter, id \in BatchIds }

\* the variants argument: an array of ids, or false / left out
VariantList(list) == [given |-> TRUE, list |-> list]
NoVariants == [given |-> FALSE, list |-> <<>>]
VariantsArgs == {NoVariants} \cup { VariantList(l) : l \in IdLists(MaxRequested) }

\* a value found under a key of the file map: a URL string with the
\* extension path.parse() sees, a property every object inherits from
\* Object.prototype (a function), or undefined
Url(ext) == [def |-> TRUE, string |-> TRUE, ext |-> ext]
Inherited == [def |-> TRUE, string |-> FALSE, ext |-> <<>>]
NoUrl == [def |-> FALSE, string |-> FALSE, ext |-> <<>>]
Truthy(url) == url.def

\* the lower-case names Object.prototype defines
ObjectPrototypeKeys == {<<"constructor">>, <<"__proto__">>}

\* one element of json.variants
ApiVariant(id, ttf, woff2) == [id |-> id, ttf |-> ttf, woff2 |-> woff2]

\* what the GWFH API answers: a status and a body that parses or not; the
\* ids it lists are Google's ('regular', 'italic', '700', ...), which
\* _normalizeVariant leaves as they are
ApiAnswer(statusCode, parses, variants) ==
  [connected |-> TRUE, statusCode |-> statusCode, parses |-> parses,
   listed |-> TRUE, variants |-> variants]
\* the https.get of the API fails with an 'error' (no response)
ConnectionRefused == [ApiAnswer(0, FALSE, <<>>) EXCEPT !.connected = FALSE]
\* a 200 whose body is JSON without a variants list, such as {}
NoVariantsList == [ApiAnswer(200, TRUE, <<>>) EXCEPT !.listed = FALSE]
\* no answer yet
NoAnswer == [ApiAnswer(0, FALSE, <<>>) EXCEPT !.connected = FALSE, !.listed = FALSE]
ApiAnswers ==
  { ConnectionRefused,
    NoVariantsList,
    ApiAnswer(404, TRUE, <<>>),
    ApiAnswer(200, FALSE, <<>>),
    ApiAnswer(200, TRUE, <<>>),
    ApiAnswer(200, TRUE,
      << ApiVariant(<<"regular">>, Url(<<".", "ttf">>), Url(<<".", "woff2">>)),
         ApiVariant(<<"700">>, Url(<<".", "TTF">>), NoUrl) >>),
    ApiAnswer(200, TRUE,
      << ApiVariant(<<"regular">>, Url(<<".", "bin">>), Url(<<".", "bin">>)),
         ApiVariant(<<"italic">>, Url(<<".", "ttf">>), Url(<<".", "woff2">>)) >>) }

Formats == {"ttf", "woff2"}
DEFAULT_FORMAT == "ttf"

\* json.variants.forEach(...): files[v.id] = v[format] when it is there
FormatUrl(v, format) == IF format = "woff2" THEN v.woff2 ELSE v.ttf
FilesOf(variants, format) ==
  LET listed == SelectSeq(variants, LAMBDA v : Truthy(FormatUrl(v, format))) IN
  [i \in 1..Len(listed) |-> [id |-> listed[i].id, url |-> FormatUrl(listed[i], format)]]

\* _getFileMapAsync(format): the promise settles with the file map, or is
\* rejected: with the 'error' of the request, for a status that is not 200,
\* or for a body on which JSON.parse or json.variants.forEach throws
_getFileMapAsyncMut(format, answer) ==
  IF ~answer.connected THEN [ok |-> FALSE, files |-> <<>>, error |-> "api connection"]
  ELSE IF answer.statusCode # 200 THEN [ok |-> FALSE, files |-> <<>>, error |-> "api status"]
  ELSE IF ~answer.parses THEN [ok |-> FALSE, files |-> <<>>, error |-> "api parse"]
  ELSE [ok |-> TRUE, files |-> FilesOf(answer.variants, format), error |-> "none"]
_getFileMapAsync(format, answer) ==
  IF ~answer.connected THEN [ok |-> FALSE, files |-> <<>>, error |-> "api connection"]
  ELSE IF answer.statusCode # 200 THEN [ok |-> FALSE, files |-> <<>>, error |-> "api status"]
  ELSE IF ~answer.parses \/ ~answer.listed
  THEN [ok |-> FALSE, files |-> <<>>, error |-> "api parse"]
  ELSE [ok |-> TRUE, files |-> FilesOf(answer.variants, format), error |-> "none"]

\* Object.keys(fileList): the keys that are array indices in ascending
\* order, then the other keys in the order they were added
IsIndex(id) == id \in {<<"400">>, <<"700">>}
IndexValue(id) == IF id = <<"400">> THEN 400 ELSE 700
ObjectKeys(files) ==
  LET ids == [i \in 1..Len(files) |-> files[i].id] IN
  SortSeq(SelectSeq(ids, IsIndex), LAMBDA a, b : IndexValue(a) < IndexValue(b))
    \o SelectSeq(ids, LAMBDA id : ~IsIndex(id))

\* fileList[norm]: an own key, else what the prototype has under the name
Lookup(files, norm) ==
  IF \E i \in 1..Len(files) : files[i].id = norm
  THEN files[CHOOSE i \in 1..Len(files) : files[i].id = norm].url
  ELSE IF norm \in ObjectPrototypeKeys THEN Inherited
  ELSE NoUrl

\* (variants && variants.length) ? variants : Object.keys(fileList)
RequestedOfMut(variants, files) ==
  IF variants.given THEN variants.list
  ELSE ObjectKeys(files)
RequestedOf(variants, files) ==
  IF variants.given /\ Len(variants.list) > 0 THEN variants.list
  ELSE ObjectKeys(files)

\* isValidFont of _saveTmp: the sniffed type is a font type, or
\* path.parse(filePath).ext.toLowerCase() is '.ttf' or '.woff2'
isValidFontMut(mime, ext) ==
  \/ mime \in {"application/font-sfnt", "font/woff2"}
  \/ ext \in {<<".", "ttf">>, <<".", "woff2">>}
isValidFont(mime, ext) ==
  \/ mime \in {"application/font-sfnt", "font/woff2"}
  \/ toLowerCase(ext) \in {<<".", "ttf">>, <<".", "woff2">>}

\* os.platform(), and where a batch puts the files: saveAtAsync with or
\* without destFolder (process.cwd()), installAsync by platform
Platforms == {"linux", "win32", "aix"}
BatchCall(op, destFolder, platform, format, variants) ==
  [op |-> op, destFolder |-> destFolder, platform |-> platform,
   format |-> format, variants |-> variants]
BatchCalls ==
  { BatchCall("saveAtAsync", d, "linux", f, v) :
      d \in {"folder", "cwd"}, f \in Formats, v \in VariantsArgs }
  \cup { BatchCall("installAsync", "system", p, DEFAULT_FORMAT, v) :
           p \in Platforms, v \in VariantsArgs }

\* one call of systemFont.saveAt / systemFont.install
NoAttempt ==
  [norm |-> <<>>, url |-> NoUrl, mime |-> "undefined", staged |-> FALSE,
   validated |-> FALSE, accepted |-> FALSE, unlink |-> "none", placed |-> FALSE,
   error |-> "none"]
NewAttempt(norm, url) == [NoAttempt EXCEPT !.norm = norm, !.url = url]

\* what the batch promise was rejected with: the AggregateError of
\* saveAtAsync with its results, or the error of the variant as it was
NoThrow == [thrown |-> FALSE, aggregate |-> FALSE, count |-> 0, errors |-> <<>>,
            results |-> <<>>]
AggregateError(errors, count, results) ==
  [thrown |-> TRUE, aggregate |-> TRUE, count |-> count, errors |-> errors,
   results |-> results]
Raw(error) ==
  [thrown |-> TRUE, aggregate |-> FALSE, count |-> 0, errors |-> <<error>>,
   results |-> <<>>]

\* no batch was called
NoBatch ==
  [pc |-> "none", call |-> BatchCall("none", "cwd", "linux", DEFAULT_FORMAT, NoVariants),
   fileList |-> <<>>, requested |-> <<>>, i |-> 0, resultList |-> <<>>,
   errors |-> <<>>, attempts |-> <<>>, cur |-> NoAttempt, orphans |-> 0,
   thrown |-> NoThrow, answer |-> NoAnswer]

\* saveAtAsync(variants, destFolder, format) / installAsync(variants) up to
\* the await of _getFileMapAsync
Called(call) == [NoBatch EXCEPT !.pc = "map", !.call = call]

\* resultList.push({ family, variant: norm, path })
PushResultMut(resultList, norm, path) == <<[variant |-> norm, path |-> path]>> \o resultList
PushResult(resultList, norm, path) == Append(resultList, [variant |-> norm, path |-> path])

\* the await of the variant ended with a path: if (path) resultList.push(...)
Succeeded(b, path) ==
  [b EXCEPT !.resultList = PushResult(@, b.cur.norm, path),
            !.cur.placed = TRUE, !.i = @ + 1, !.pc = "loop"]

\* the await of the variant threw: saveAtAsync collects the error and goes
\* on, installAsync throws it again
Failed(b, error) ==
  IF b.call.op = "saveAtAsync"
  THEN [b EXCEPT !.errors = Append(@, error), !.cur.error = error,
                 !.i = @ + 1, !.pc = "loop"]
  ELSE [b EXCEPT !.cur.error = error, !.thrown = Raw(error), !.pc = "threw"]

\* the downloads of this batch that are transferring
Transferring(b) == b.orphans + (IF b.pc = "downloading" THEN 1 ELSE 0)

\* _getFileMapAsync settles
FileMapDone(answer) ==
  /\ batch.pc = "map"
  /\ LET map == _getFileMapAsync(batch.call.format, answer) IN
     batch' = IF map.ok
              THEN [batch EXCEPT !.answer = answer, !.fileList = map.files,
                                 !.requested = RequestedOf(batch.call.variants, map.files),
                                 !.i = 1, !.pc = "loop"]
              ELSE [batch EXCEPT !.answer = answer, !.thrown = Raw(map.error),
                                 !.pc = "threw"]
  /\ UNCHANGED <<viewVars, variant, req, cli, stage>>
  /\ UNCHANGED cacheVars
  /\ UNCHANGED listVars

\* for (const v of requested): norm, url, and if (url) the call of
\* systemFont.saveAt or systemFont.install, whose switch throws at once on
\* a platform it does not know
ForEachVariant ==
  /\ batch.pc = "loop"
  /\ batch.i <= Len(batch.requested)
  /\ LET norm == _normalizeVariant(StringArg(batch.requested[batch.i]))
         url == Lookup(batch.fileList, norm)
         begun == [batch EXCEPT !.attempts = Append(@, norm),
                                !.cur = NewAttempt(norm, url)]
     IN batch' = IF ~Truthy(url) THEN [batch EXCEPT !.i = @ + 1]
                 ELSE IF batch.call.op = "installAsync" /\ batch.call.platform = "aix"
                 THEN Failed(begun, "platform")
                 ELSE [begun EXCEPT !.pc = "saveTmp"]
  /\ UNCHANGED <<viewVars, variant, req, cli, stage>>
  /\ UNCHANGED cacheVars
  /\ UNCHANGED listVars

\* _saveTmp up to the download: _checkDestFolder(tmp_folder), then
\* path.parse(remoteFile), which throws on what is not a string, then
\* createWriteStream and new Request(remoteFile)
SaveTmp(folderOk) ==
  /\ batch.pc = "saveTmp"
  /\ batch' = IF ~folderOk THEN Failed(batch, "folder")
              ELSE IF ~batch.cur.url.string THEN Failed(batch, "type")
              ELSE [batch EXCEPT !.cur.staged = TRUE, !.pc = "downloading"]
  /\ UNCHANGED <<viewVars, variant, req, cli, stage>>
  /\ UNCHANGED cacheVars
  /\ UNCHANGED listVars

\* download.on('error', reject): the Request emits an error, after which it
\* transfers nothing more
DownloadError ==
  /\ batch.pc = "downloading"
  /\ batch' = Failed(batch, "download")
  /\ UNCHANGED <<viewVars, variant, req, cli, stage>>
  /\ UNCHANGED cacheVars
  /\ UNCHANGED listVars

\* localFile.on('error', reject): the write stream fails; nothing stops the
\* Request, which goes on transferring
WriteStreamError ==
  /\ batch.pc = "downloading"
  /\ batch' = Failed([batch EXCEPT !.orphans = @ + 1], "stream")
  /\ UNCHANGED <<viewVars, variant, req, cli, stage>>
  /\ UNCHANGED cacheVars
  /\ UNCHANGED listVars

\* a Request whose write stream failed comes to its end
OrphanEnd ==
  /\ batch.orphans > 0
  /\ batch' = [batch EXCEPT !.orphans = @ - 1]
  /\ UNCHANGED <<viewVars, variant, req, cli, stage>>
  /\ UNCHANGED cacheVars
  /\ UNCHANGED listVars

\* the Request ends with 'success': its _mimeType is set, end() ends the
\* write stream
DownloadEnd(mime) ==
  /\ batch.pc = "downloading"
  /\ batch' = [batch EXCEPT !.cur.mime = mime, !.pc = "finish"]
  /\ UNCHANGED <<viewVars, variant, req, cli, stage>>
  /\ UNCHANGED cacheVars
  /\ UNCHANGED listVars

\* localFile.on('finish'): resolve(filePath) for a valid font, else
\* fs.unlink(filePath), whose failure is ignored, and
\* reject('Downloaded file is corrupted')
Finish(unlinkOk) ==
  /\ batch.pc = "finish"
  /\ LET valid == isValidFont(batch.cur.mime, batch.cur.url.ext) IN
     /\ valid => unlinkOk
     /\ batch' = IF valid
                 THEN [batch EXCEPT !.cur.validated = TRUE, !.cur.accepted = TRUE,
                                    !.pc = "place"]
                 ELSE Failed([batch EXCEPT !.cur.validated = TRUE,
                                           !.cur.unlink = IF unlinkOk THEN "done" ELSE "failed",
                                           !.cur.staged = ~unlinkOk],
                             "corrupted")
  /\ UNCHANGED <<viewVars, variant, req, cli, stage>>
  /\ UNCHANGED cacheVars
  /\ UNCHANGED listVars

\* how the placement of a staged file may end: _move (_checkDestFolder,
\* fs.rename) for saveAt, PowerShell for install on win32
Placements(call) ==
  IF call.op = "installAsync" /\ call.platform = "win32" THEN {"ok", "powershell"}
  ELSE {"ok", "folder", "write"}

\* the path the variant resolves with: newPath of _move, in the folder the
\* call names, or the message of install on win32; the staged file is
\* renamed by _move and stays for PowerShell
PathOf(call) ==
  IF call.op = "installAsync" /\ call.platform = "win32" THEN "powershell message"
  ELSE call.destFolder

\* _move(tmpPath, destFolder) of saveAt, or the PowerShell of install
Place(how) ==
  /\ batch.pc = "place"
  /\ how \in Placements(batch.call)
  /\ batch' = IF how = "ok"
              THEN Succeeded([batch EXCEPT !.cur.staged = (PathOf(batch.call) = "powershell message")],
                             PathOf(batch.call))
              ELSE Failed(batch, how)
  /\ UNCHANGED <<viewVars, variant, req, cli, stage>>
  /\ UNCHANGED cacheVars
  /\ UNCHANGED listVars

\* after the loop: saveAtAsync throws one AggregateError that carries
\* resultList when errors were collected; else resultList is returned
BatchEnd ==
  /\ batch.pc = "loop"
  /\ batch.i > Len(batch.requested)
  /\ batch' = IF Len(batch.errors) > 0
              THEN [batch EXCEPT !.thrown = AggregateError(batch.errors, Len(batch.errors),
                                                          batch.resultList),
                                 !.pc = "threw"]
              ELSE [batch EXCEPT !.pc = "returned"]
  /\ UNCHANGED <<viewVars, variant, req, cli, stage>>
  /\ UNCHANGED cacheVars
  /\ UNCHANGED listVars

\* ---------------- lib/system-font.js: saveAt operations running at once
\* what two operations are given: _fileName of the font, the normalized
\* variant, and the folder the file is to end in; the remote file is a .ttf
StageFileNames == {"Lato", "OpenSans"}
StageNorms == {<<"regular">>, <<"700">>}
StageFolders == {"fonts", "cwd"}
StageOps == {1, 2}
tmp_folder == "tmp_folder"

\* path.join(folder, name) and path.basename(path)
join(folder, name) == <<folder, "/">> \o name
basename(path) == SubSeq(path, 3, Len(path))

\* self._fileName + '-' + norm, the fileName saveAt is called with
FileNameOf(_fileName, norm) == <<_fileName, "-">> \o norm

\* filePath of _saveTmp: path.join(folder, fileName + remoteExt)
FilePath(fileName, remoteExt) == join(tmp_folder, fileName \o remoteExt)

\* a saveAt(remoteFile, destFolder, fileName) call before its first step
saveAt(fileName, destFolder) ==
  [fileName |-> fileName, remoteExt |-> <<".", "ttf">>, destFolder |-> destFolder,
   pc |-> "saveTmp", filePath |-> <<>>, fd |-> 0, newPath |-> <<>>,
   error |-> "none"]

\* no operation runs, no file exists
NoStage == [ops |-> <<>>, files |-> {}]

\* the file a path names, 0 when there is none
InodeAt(files, path) ==
  IF \E f \in files : f.path = path
  THEN (CHOOSE f \in files : f.path = path).inode
  ELSE 0

\* _saveTmp up to fsSync.createWriteStream(filePath): flags 'w' open the
\* file the path names and truncate it, or create one
StageSaveTmp(j) ==
  /\ j \in DOMAIN stage.ops
  /\ stage.ops[j].pc = "saveTmp"
  /\ LET op == stage.ops[j]
         filePath == FilePath(op.fileName, op.remoteExt)
         there == InodeAt(stage.files, filePath)
         inode == IF there # 0 THEN there ELSE j
     IN stage' = [stage EXCEPT !.ops[j].filePath = filePath, !.ops[j].fd = inode,
                               !.ops[j].pc = "downloading",
                               !.files = @ \cup {[path |-> filePath, inode |-> inode]}]
  /\ UNCHANGED <<viewVars, variant, req, batch, cli>>
  /\ UNCHANGED cacheVars
  /\ UNCHANGED listVars

\* the download ends and the write stream finishes: the extension is
\* '.ttf', so resolve(filePath)
StageFinish(j) ==
  /\ j \in DOMAIN stage.ops
  /\ stage.ops[j].pc = "downloading"
  /\ stage' = [stage EXCEPT !.ops[j].pc = "move"]
  /\ UNCHANGED <<viewVars, variant, req, batch, cli>>
  /\ UNCHANGED cacheVars
  /\ UNCHANGED listVars

\* _move(oldPath, destFolder): fs.rename(oldPath, newPath) replaces what
\* newPath names, and fails when oldPath names no file
StageMove(j) ==
  /\ j \in DOMAIN stage.ops
  /\ stage.ops[j].pc = "move"
  /\ LET op == stage.ops[j]
         newPath == join(op.destFolder, basename(op.filePath))
         inode == InodeAt(stage.files, op.filePath)
     IN stage' = IF inode = 0
                 THEN [stage EXCEPT !.ops[j].pc = "threw", !.ops[j].error = "write"]
                 ELSE [stage EXCEPT !.ops[j].pc = "returned",
                                    !.ops[j].newPath = newPath,
                                    !.files = { f \in @ : f.path \notin {op.filePath, newPath} }
                                                \cup {[path |-> newPath, inode |-> inode]}]
  /\ UNCHANGED <<viewVars, variant, req, batch, cli>>
  /\ UNCHANGED cacheVars
  /\ UNCHANGED listVars

\* ------------------------------------------------ the command line
\* no command was run
NoCli ==
  [pc |-> "none", command |-> "none", arg |-> <<>>, terms |-> <<>>, k |-> 0,
   reported |-> <<>>, retrieved |-> <<>>, successCount |-> 0, failCount |-> 0,
   exit |-> "none"]

\* ------------------------------- lib/google-font-list.js: the views
\* googleFont objects of a loaded list: family is a string (maybe ''),
\* category may be missing
SearchFonts ==
  << [family |-> Str(<<"a", "B">>), category |-> Str(<<"B">>)],
     [family |-> Str(<<"a", " ", "B">>), category |-> Undefined],
     [family |-> Str(<<"a", "\t", "B">>), category |-> Str(<<"B", " ", "a">>)],
     [family |-> Str(<<>>), category |-> Str(<<"a">>)] >>

\* what data may hold, by index into SearchFonts
SearchCatalogs == { <<>>, <<1, 2>>, <<3, 4, 2>>, <<1, 2, 3, 4>> }
FontsOf(ids) == [i \in 1..Len(ids) |-> SearchFonts[ids[i]]]

\* the terms and field names a caller may pass
RECURSIVE StringsUpTo(_)
StringsUpTo(n) ==
  IF n = 0 THEN { <<>> }
  ELSE LET shorter == StringsUpTo(n - 1) IN
       shorter \cup { Append(t, c) : t \in shorter, c \in Chars }
Terms == StringsUpTo(MaxTermLen)
Fields == {"family", "category"}

\* el[field] || ''
FieldValue(el, field) ==
  LET v == IF field = "family" THEN el.family ELSE el.category IN
  IF v.def THEN v.s ELSE <<>>

\* term.trim().length > 0 ? term.toLowerCase().split(' ') : []
searchTermsMut(term) == split(toLowerCase(term))
searchTerms(term) ==
  IF Len(trim(term)) > 0 THEN split(toLowerCase(term)) ELSE <<>>

\* the filter function of searchFont: found starts as searchTerms.length > 0
\* and is and-ed with val.toLowerCase().indexOf(subTerm) !== -1
SearchFoundMut(el, terms, field) ==
  /\ Len(terms) > 0
  /\ \A i \in 1..Len(terms) : Contains(FieldValue(el, field), terms[i])
SearchFound(el, terms, field) ==
  /\ Len(terms) > 0
  /\ \A i \in 1..Len(terms) : Contains(toLowerCase(FieldValue(el, field)), terms[i])

\* self.data.filter(...) of searchFont
searchFontMut(list, term, field) ==
  SelectSeq(list, LAMBDA el : SearchFound(el, searchTerms(term), field))
    \o SelectSeq(list, LAMBDA el : SearchFound(el, searchTerms(term), field))
searchFont(list, term, field) ==
  SelectSeq(list, LAMBDA el : SearchFound(el, searchTerms(term), field))

\* the filter function of getFont: val.toLowerCase() === searchTerms
GetFoundMut(el, term, field) ==
  Contains(toLowerCase(FieldValue(el, field)), toLowerCase(trim(term)))
GetFound(el, term, field) ==
  toLowerCase(FieldValue(el, field)) = toLowerCase(trim(term))

\* self.data.filter(...) of getFont
getFont(list, term, field) ==
  SelectSeq(list, LAMBDA el : GetFound(el, term, field))

\* clone(): a new GoogleFontList, whose constructor starts a load of its
\* own, given the data of this one
clone(list) ==
  [data |-> list, _filterField |-> NoField, _filterTerm |-> Undefined, loading |-> TRUE]

\* fontList._filterTerm = term
FilterTermMut(term) == Str(trim(term))
FilterTerm(term) == Str(term)

\* fontList = self.clone(); fontList.data = result;
\* fontList._filterField = field; fontList._filterTerm = term
Tagged(fontList, result, term, field) ==
  [fontList EXCEPT !.data = result,
                   !._filterField = Field(field),
                   !._filterTerm = FilterTerm(term)]

\* no view was handed out yet
NoView ==
  [made |-> FALSE, op |-> "none", term |-> <<>>, field |-> "", returned |-> <<>>,
   fontList |-> [data |-> <<>>, _filterField |-> NoField, _filterTerm |-> Undefined,
                 loading |-> FALSE]]

\* callback(null, fontList): the call, the entries the view held then, and
\* the view
Handed(op, term, field, fontList) ==
  [made |-> TRUE, op |-> op, term |-> term, field |-> field,
   returned |-> fontList.data, fontList |-> fontList]

\* one call of searchFont or getFont is watched: both are functions of data,
\* which they leave alone
FirstCall == ~view.made

\* searchFont(term, field, callback)
SearchFont(term, field) ==
  /\ FirstCall
  /\ view' = Handed("searchFont", term, field,
                    Tagged(clone(data), searchFont(data, term, field), term, field))
  /\ UNCHANGED <<_filterField, _filterTerm, variant, req, batch, cli, stage>>
  /\ UNCHANGED cacheVars
  /\ UNCHANGED listVars

\* getFont(term, field, callback)
GetFont(term, field) ==
  /\ FirstCall
  /\ view' = Handed("getFont", term, field,
                    Tagged(clone(data), getFont(data, term, field), term, field))
  /\ UNCHANGED <<_filterField, _filterTerm, variant, req, batch, cli, stage>>
  /\ UNCHANGED cacheVars
  /\ UNCHANGED listVars

\* the load the constructor of the view started ends: either it populated
\* the view (populate pushes onto the view's data) or it failed
ViewLoadDone(ok, ids) ==
  /\ view.made
  /\ view.fontList.loading
  /\ ~ok => ids = <<>>
  /\ view' = [view EXCEPT !.fontList.loading = FALSE,
                          !.fontList.data = @ \o FontsOf(ids)]
  /\ UNCHANGED <<_filterField, _filterTerm, variant, req, batch, cli, stage>>
  /\ UNCHANGED cacheVars
  /\ UNCHANGED listVars

\* a list that was constructed and has loaded its catalog
InitSearch ==
  /\ now = NowInit
  /\ disk = NoFile
  /\ writes = <<>>
  /\ lastWrite = NoWrite
  /\ lastRead = NoRead
  /\ lastSettled = NoneSettled
  /\ data \in { FontsOf(ids) : ids \in SearchCatalogs }
  /\ _loading = FALSE
  /\ _loadingPromise = 0
  /\ loads = [p \in 1..MaxLoads |-> NoLoad]
  /\ lastCall = LoadCall(FALSE, 0, 0)
  /\ errorListener = FALSE
  /\ _filterField = NoField
  /\ _filterTerm = Undefined
  /\ view = NoView
  /\ variant = NoVariant
  /\ req = NoRequest
  /\ batch = NoBatch
  /\ cli = NoCli
  /\ stage = NoStage

NextSearch ==
  \/ \E term \in Terms, field \in Fields : SearchFont(term, field)
  \/ \E term \in Terms, field \in Fields : GetFont(term, field)
  \/ \E ok \in BOOLEAN, ids \in SearchCatalogs : ViewLoadDone(ok, ids)

SpecSearch == InitSearch /\ [][NextSearch]_vars

\* ------------------------------------- the commands of the command line
\* the family argument, family.join(" "), is made of these
CliChars == {"a", "B", ",", " "}
RECURSIVE CliStrings(_)
CliStrings(n) ==
  IF n = 0 THEN { <<>> }
  ELSE LET shorter == CliStrings(n - 1) IN
       shorter \cup { Append(t, c) : t \in shorter, c \in CliChars }
\* <family...> takes one word at least
CliArgs == CliStrings(MaxArgLen) \ { <<>> }
Commands == {"download", "install", "copy"}
\* what fontList.data may hold when a command runs, by index into SearchFonts
CliCatalogs == { <<1, 2>>, <<1, 1, 2>> }

\* splitFamilies: join(" "), split(","), trim every piece, drop the empty ones
splitFamilies(arg) ==
  LET pieces == SplitOn(arg, {","})
      trimmed == [j \in 1..Len(pieces) |-> trim(pieces[j])]
  IN SelectSeq(trimmed, LAMBDA piece : Len(piece) > 0)

\* the names a command looks up: download and install split the argument,
\* copy takes it whole
TermsOf(command, arg) == IF command = "copy" THEN <<arg>> ELSE splitFamilies(arg)

\* filteredList.data.length !== 1 is the match error
SingleMatchMut(filteredList) == Len(filteredList) >= 1
SingleMatch(filteredList) == Len(filteredList) = 1

\* the action of a command up to the await of ensureFontsLoaded
Run(command, arg) ==
  [NoCli EXCEPT !.pc = "loading", !.command = command, !.arg = arg,
                !.terms = TermsOf(command, arg), !.k = 1]

\* ensureFontsLoaded(refresh): the list loads, or process.exit(1)
EnsureFontsLoaded(ok) ==
  /\ cli.pc = "loading"
  /\ cli' = IF ok THEN [cli EXCEPT !.pc = "loop"]
            ELSE [cli EXCEPT !.pc = "exit", !.exit = "load error"]
  /\ UNCHANGED <<viewVars, variant, req, batch, stage>>
  /\ UNCHANGED cacheVars
  /\ UNCHANGED listVars

\* getFontByName(term) for the next name: without a single match
\* handleMatchError reports it and the loop goes on; with one,
\* font.saveAtAsync / font.installAsync is called and awaited, or ncp.copy
\* is called
MatchFamily ==
  /\ cli.pc = "loop"
  /\ cli.k <= Len(cli.terms)
  /\ LET term == cli.terms[cli.k]
         filteredList == getFont(data, term, "family")
     IN cli' = IF ~SingleMatch(filteredList)
               THEN [cli EXCEPT !.reported = Append(@, term), !.k = @ + 1,
                                !.failCount = IF cli.command = "copy" THEN @ ELSE @ + 1]
               ELSE IF cli.command = "copy"
               THEN [cli EXCEPT !.retrieved = Append(@, term), !.k = @ + 1]
               ELSE [cli EXCEPT !.retrieved = Append(@, term), !.pc = "awaiting"]
  /\ UNCHANGED <<viewVars, variant, req, batch, stage>>
  /\ UNCHANGED cacheVars
  /\ UNCHANGED listVars

\* the batch of the family settles: successCount++, or the catch of the
\* loop body, handleMatchError and failCount++
FamilySettled(ok) ==
  /\ cli.pc = "awaiting"
  /\ cli' = IF ok THEN [cli EXCEPT !.successCount = @ + 1, !.k = @ + 1, !.pc = "loop"]
            ELSE [cli EXCEPT !.failCount = @ + 1, !.k = @ + 1, !.pc = "loop"]
  /\ UNCHANGED <<viewVars, variant, req, batch, stage>>
  /\ UNCHANGED cacheVars
  /\ UNCHANGED listVars

\* after the loop: process.exit(1) when every family failed
CommandEnd ==
  /\ cli.pc = "loop"
  /\ cli.k > Len(cli.terms)
  /\ cli' = [cli EXCEPT !.pc = "exit",
                        !.exit = IF cli.failCount > 0 /\ cli.successCount = 0
                                 THEN "all failed" ELSE "done"]
  /\ UNCHANGED <<viewVars, variant, req, batch, stage>>
  /\ UNCHANGED cacheVars
  /\ UNCHANGED listVars

\* bodies the catalog endpoint may answer 200 with
Bodies ==
  { StringifyList(c) : c \in Catalogs }
    \cup { <<JunkTok>>, <<LBrace, KeyTok("not"), StrTok, RBrace>> }

\* new GoogleFontList(): data = [], then this.load(false)
Init ==
  /\ now = NowInit
  /\ disk \in StartFiles
  /\ writes = <<>>
  /\ lastWrite = NoWrite
  /\ lastRead = NoRead
  /\ lastSettled = NoneSettled
  /\ data = <<>>
  /\ _loading = TRUE
  /\ _loadingPromise = 1
  /\ loads = [p \in 1..MaxLoads |-> IF p = 1 THEN Started(FALSE, <<>>, disk) ELSE NoLoad]
  /\ lastCall = LoadCall(FALSE, 0, 1)
  /\ errorListener = FALSE
  /\ _filterField = NoField
  /\ _filterTerm = Undefined
  /\ view = NoView
  /\ variant = NoVariant
  /\ req = NoRequest
  /\ batch = NoBatch
  /\ cli = NoCli
  /\ stage = NoStage

Next ==
  \/ \E forceRefresh \in BOOLEAN : Load(forceRefresh)
  \/ \E p \in 1..MaxLoads : ReadCacheDone(p)
  \/ \E p \in 1..MaxLoads, rawData \in Bodies : RequestSuccess(p, rawData)
  \/ \E p \in 1..MaxLoads, error \in TransportErrors : RequestError(p, error)
  \/ OnError
  \/ \E w \in 1..MaxLoads, ok \in BOOLEAN : EnsureDirDone(w, ok)
  \/ \E w \in 1..MaxLoads, ok \in BOOLEAN, cut \in BOOLEAN : WriteFileDone(w, ok, cut)
  \/ Tick(1)

Spec == Init /\ [][Next]_vars

\* the cache store on its own: no list is constructed
InitCache ==
  /\ now = NowInit
  /\ disk \in OtherFiles \cup PayloadFiles
  /\ writes = <<>>
  /\ lastWrite = NoWrite
  /\ lastRead = NoRead
  /\ lastSettled = NoneSettled
  /\ data = <<>>
  /\ _loading = FALSE
  /\ _loadingPromise = 0
  /\ loads = [p \in 1..MaxLoads |-> NoLoad]
  /\ lastCall = LoadCall(FALSE, 0, 0)
  /\ errorListener = FALSE
  /\ _filterField = NoField
  /\ _filterTerm = Undefined
  /\ view = NoView
  /\ variant = NoVariant
  /\ req = NoRequest
  /\ batch = NoBatch
  /\ cli = NoCli
  /\ stage = NoStage

NextCache ==
  \/ \E d \in {1, CACHE_TTL_MS} : Tick(d)
  \/ ReadCacheCall
  \/ \E fonts \in Catalogs : WriteCacheCall(fonts)
  \/ \E w \in 1..MaxWrites, ok \in BOOLEAN : EnsureDirDone(w, ok)
  \/ \E w \in 1..MaxWrites, ok \in BOOLEAN, cut \in BOOLEAN : WriteFileDone(w, ok, cut)

SpecCache == InitCache /\ [][NextCache]_vars

\* _normalizeVariant on its own
NormalizeVariant(arg) ==
  /\ ~variant.done
  /\ variant' = [done |-> TRUE, arg |-> arg, result |-> _normalizeVariant(arg)]
  /\ UNCHANGED <<viewVars, req, batch, cli, stage>>
  /\ UNCHANGED cacheVars
  /\ UNCHANGED listVars

InitVariant ==
  /\ now = NowInit
  /\ disk = NoFile
  /\ writes = <<>>
  /\ lastWrite = NoWrite
  /\ lastRead = NoRead
  /\ lastSettled = NoneSettled
  /\ data = <<>>
  /\ _loading = FALSE
  /\ _loadingPromise = 0
  /\ loads = [p \in 1..MaxLoads |-> NoLoad]
  /\ lastCall = LoadCall(FALSE, 0, 0)
  /\ errorListener = FALSE
  /\ _filterField = NoField
  /\ _filterTerm = Undefined
  /\ view = NoView
  /\ variant = NoVariant
  /\ req = NoRequest
  /\ batch = NoBatch
  /\ cli = NoCli
  /\ stage = NoStage

NextVariant == \E arg \in VariantArgs : NormalizeVariant(arg)

SpecVariant == InitVariant /\ [][NextVariant]_vars

\* a Request on its own: new Request(uri), with an 'error' listener
InitRequest ==
  /\ now = NowInit
  /\ disk = NoFile
  /\ writes = <<>>
  /\ lastWrite = NoWrite
  /\ lastRead = NoRead
  /\ lastSettled = NoneSettled
  /\ data = <<>>
  /\ _loading = FALSE
  /\ _loadingPromise = 0
  /\ loads = [p \in 1..MaxLoads |-> NoLoad]
  /\ lastCall = LoadCall(FALSE, 0, 0)
  /\ errorListener = FALSE
  /\ _filterField = NoField
  /\ _filterTerm = Undefined
  /\ view = NoView
  /\ variant = NoVariant
  /\ req \in { NewRequest(uri) : uri \in Uris }
  /\ batch = NoBatch
  /\ cli = NoCli
  /\ stage = NoStage

NextRequest ==
  \/ \E status \in Statuses, location \in Locations : HandleResponse(status, location)
  \/ InvalidUrl
  \/ ResponseEnd
  \/ \E mime \in MimeTypes : Sniffed(mime)
  \/ EmitSuccess
  \/ End
  \/ Timeout
  \/ ConnectionError

SpecRequest == InitRequest /\ [][NextRequest]_vars

\* a googleFont whose saveAtAsync or installAsync is called
InitBatch ==
  /\ now = NowInit
  /\ disk = NoFile
  /\ writes = <<>>
  /\ lastWrite = NoWrite
  /\ lastRead = NoRead
  /\ lastSettled = NoneSettled
  /\ data = <<>>
  /\ _loading = FALSE
  /\ _loadingPromise = 0
  /\ loads = [p \in 1..MaxLoads |-> NoLoad]
  /\ lastCall = LoadCall(FALSE, 0, 0)
  /\ errorListener = FALSE
  /\ _filterField = NoField
  /\ _filterTerm = Undefined
  /\ view = NoView
  /\ variant = NoVariant
  /\ req = NoRequest
  /\ batch \in { Called(call) : call \in BatchCalls }
  /\ cli = NoCli
  /\ stage = NoStage

NextBatch ==
  \/ \E answer \in ApiAnswers : FileMapDone(answer)
  \/ ForEachVariant
  \/ \E folderOk \in BOOLEAN : SaveTmp(folderOk)
  \/ DownloadError
  \/ WriteStreamError
  \/ OrphanEnd
  \/ \E mime \in MimeTypes : DownloadEnd(mime)
  \/ \E unlinkOk \in BOOLEAN : Finish(unlinkOk)
  \/ \E how \in {"ok", "folder", "write", "powershell"} : Place(how)
  \/ BatchEnd

SpecBatch == InitBatch /\ [][NextBatch]_vars

\* a command of the command line is run
InitCli ==
  /\ now = NowInit
  /\ disk = NoFile
  /\ writes = <<>>
  /\ lastWrite = NoWrite
  /\ lastRead = NoRead
  /\ lastSettled = NoneSettled
  /\ data \in { FontsOf(ids) : ids \in CliCatalogs }
  /\ _loading = FALSE
  /\ _loadingPromise = 0
  /\ loads = [p \in 1..MaxLoads |-> NoLoad]
  /\ lastCall = LoadCall(FALSE, 0, 0)
  /\ errorListener = FALSE
  /\ _filterField = NoField
  /\ _filterTerm = Undefined
  /\ view = NoView
  /\ variant = NoVariant
  /\ req = NoRequest
  /\ batch = NoBatch
  /\ cli \in { Run(command, arg) : command \in Commands, arg \in CliArgs }
  /\ stage = NoStage

NextCli ==
  \/ \E ok \in BOOLEAN : EnsureFontsLoaded(ok)
  \/ MatchFamily
  \/ \E ok \in BOOLEAN : FamilySettled(ok)
  \/ CommandEnd

SpecCli == InitCli /\ [][NextCli]_vars

\* two saveAt operations of one process or of two, each free to step
InitStaging ==
  /\ now = NowInit
  /\ disk = NoFile
  /\ writes = <<>>
  /\ lastWrite = NoWrite
  /\ lastRead = NoRead
  /\ lastSettled = NoneSettled
  /\ data = <<>>
  /\ _loading = FALSE
  /\ _loadingPromise = 0
  /\ loads = [p \in 1..MaxLoads |-> NoLoad]
  /\ lastCall = LoadCall(FALSE, 0, 0)
  /\ errorListener = FALSE
  /\ _filterField = NoField
  /\ _filterTerm = Undefined
  /\ view = NoView
  /\ variant = NoVariant
  /\ req = NoRequest
  /\ batch = NoBatch
  /\ cli = NoCli
  /\ stage \in { [ops |-> [j \in StageOps |-> saveAt(FileNameOf(f[j], n[j]), d[j])],
                  files |-> {}] :
                 f \in [StageOps -> StageFileNames], n \in [StageOps -> StageNorms],
                 d \in [StageOps -> StageFolders] }

NextStaging ==
  \/ \E j \in StageOps : StageSaveTmp(j)
  \/ \E j \in StageOps : StageFinish(j)
  \/ \E j \in StageOps : StageMove(j)

SpecStaging == InitStaging /\ [][NextStaging]_vars

\* ---------------------------------------------------------- the claims
Loads == 1..MaxLoads
Settles(p) == loads[p].st = "pending" /\ loads'[p].st \in {"resolved", "rejected"}

\* C1: a load() call made while a load operation is in flight (the one the
\* constructor started included) returns that operation's promise, so all
\* such calls share one outcome; no second operation runs beside it, and
\* the operation reads the cache at most once and builds at most one
\* Request.
SingleFlight ==
  /\ lastCall.during # 0 => lastCall.ret = lastCall.during
  /\ Cardinality({p \in Loads : loads[p].st = "pending"}) <= 1
  /\ \A p \in Loads :
       /\ loads[p].cacheReads <= 1
       /\ loads[p].netGets <= 1
       /\ loads[p].st = "pending" => loads[p].cacheReads + loads[p].netGets >= 1

\* a load(true) joined the constructor's load, which went to the network
SingleFlightWitness ==
  /\ lastCall = LoadCall(TRUE, 1, 1)
  /\ loads[1].st = "resolved"
  /\ loads[1].cacheReads = 1
  /\ loads[1].netGets = 1

\* C2: every load(true) call ends in a network fetch and never resolves
\* with fromCache = true.
ForceRefreshFetches ==
  (lastCall.force /\ loads[lastCall.ret].st \in {"resolved", "rejected"}) =>
    /\ loads[lastCall.ret].netGets = 1
    /\ loads[lastCall.ret].fromCache # "true"

\* the cache file holds a well-typed entry no older than the TTL
ValidEntry(file, clock) ==
  /\ file.exists
  /\ LET payload == JSONparse(file.content) IN
       /\ payload.ok
       /\ payload.fonts.t = "array"
       /\ payload.fetchedAt.t = "number"
       /\ clock - payload.fetchedAt.n <= CACHE_TTL_MS

StoredFonts(file) == JSONparse(file.content).fonts.v

\* C3: when the cache read of a load(false) finds a valid entry, the load
\* pushes one entry per cached record onto data, resolves with
\* fromCache = true and builds no Request.
CacheHitServesFromCache ==
  [][\A p \in Loads :
       (loads[p].pc = "readCache" /\ loads'[p].pc # "readCache" /\ ValidEntry(disk, now)) =>
         /\ loads'[p].st = "resolved"
         /\ loads'[p].fromCache = "true"
         /\ loads'[p].netGets = 0
         /\ data' = data \o [i \in 1..Len(StoredFonts(disk)) |->
                              googleFont(StoredFonts(disk)[i])]]_vars

\* a second load, started on a populated list, was served from the cache
CacheHitWitness ==
  /\ loads[2].st = "resolved"
  /\ loads[2].cache = "hit"
  /\ loads[2].fromCache = "true"
  /\ loads[2].data0 # <<>>
  /\ Len(data) > Len(loads[2].data0)

FormatErrors == {"unparsable", "nonarray"}

\* C4: when the catalog endpoint answers 200 with a body that is no JSON
\* array, the load does not resolve, an error flagged isInvalidJson is
\* emitted and data is not populated.
FormatErrorFailsLoad ==
  \A p \in Loads :
    loads[p].body \in FormatErrors =>
      /\ loads[p].st # "resolved"
      /\ loads[p].emitted = "isInvalidJson"
      /\ data = loads[p].data0

\* C5 as claimed: when the Request of a load signals an error, the load
\* rejects with that error and data is empty.
TransportFailureLeavesEmpty ==
  \A p \in Loads :
    loads[p].signal \in TransportErrors =>
      /\ loads[p].st = "rejected"
      /\ loads[p].err = loads[p].signal
      /\ data = <<>>

\* C5, amended: when the Request of a load signals an error, the load
\* rejects with that error and data is what it was when the load started.
TransportFailureLeavesModel ==
  \A p \in Loads :
    loads[p].signal \in TransportErrors =>
      /\ loads[p].st = "rejected"
      /\ loads[p].err = loads[p].signal
      /\ loads[p].netGets = 1
      /\ data = loads[p].data0

\* a refresh of a populated list failed on a timeout
TransportFailureWitness ==
  /\ loads[2].signal = "timeout"
  /\ loads[2].st = "rejected"
  /\ loads[2].data0 # <<>>

\* no load operation is pending: the loader is idle
IdleWhenSettled ==
  (\A p \in Loads : loads[p].st # "pending") => (_loadingPromise = 0 /\ _loading = FALSE)

\* a load() call made while no operation is pending starts one that was
\* never used, with its own cache read or Request
FreshStart ==
  (lastCall' # lastCall /\ lastCall'.during = 0) =>
    /\ loads[lastCall'.ret].st = "unused"
    /\ loads'[lastCall'.ret].st = "pending"
    /\ loads'[lastCall'.ret].cacheReads + loads'[lastCall'.ret].netGets = 1

\* C6: once a load operation has resolved or rejected, _loadingPromise is
\* null and _loading is false, and the next load() call starts a fresh
\* operation.
LoaderReturnsToIdle == [](IdleWhenSettled) /\ [][FreshStart]_vars

\* after a load that rejected, a load() call started a second operation
LoaderIdleWitness ==
  /\ loads[1].st = "rejected"
  /\ loads[2].st = "pending"
  /\ lastCall.during = 0
  /\ lastCall.ret = 2
  /\ _loadingPromise = 2

\* load p ends, in this step, in a transport error or a format error
EndsInError(p) ==
  /\ loads[p].st = "pending"
  /\ loads[p].pc = "download"
  /\ loads'[p].st = "rejected" \/ loads'[p].body \in FormatErrors

\* a writeCache() call is made in this step only by a load whose body
\* parsed as a JSON array
WriteFollowsParse ==
  Len(writes') > Len(writes) =>
    \E p \in Loads :
      /\ loads[p].pc = "download"
      /\ loads'[p].body = "array"
      /\ writes'[Len(writes')].by = p

\* the file changes in this step only because a writeFile settles
FileChangesByWrite ==
  disk' # disk =>
    \E w \in 1..Len(writes) : writes[w].pc = "writeFile" /\ writes'[w].pc = "done"

\* C7 as claimed: each cache write follows a parse as a JSON array, and when
\* a load ends in a transport or format error the file is what it was when
\* that load started.
FailedLoadLeavesCache ==
  [][/\ WriteFollowsParse
     /\ \A p \in Loads : EndsInError(p) => disk' = loads[p].disk0]_vars

\* C7, amended: each cache write follows a parse as a JSON array, a load
\* that ends in a transport or format error makes no writeCache() call, and
\* the file changes only when a writeFile of such a call settles.
CacheWrittenOnlyAfterParse ==
  [][/\ WriteFollowsParse
     /\ FileChangesByWrite
     /\ \A p \in Loads :
          EndsInError(p) => (Len(writes') = Len(writes) /\ disk' = disk)]_vars

\* a refresh failed while the write of the first load put its payload in
\* the file
FailedLoadWitness ==
  /\ loads[2].st = "rejected"
  /\ Len(writes) = 1
  /\ lastWrite.ok
  /\ disk # loads[2].disk0

\* C8: readCache() returns the stored fonts array, unmodified, if and only
\* if the file parses, fonts is an array, fetchedAt is a number and
\* now - fetchedAt <= CACHE_TTL_MS; otherwise it returns null.
CacheTTL ==
  lastRead.done =>
    lastRead.result = IF ValidEntry(lastRead.file, lastRead.at)
                      THEN ArrayOf(StoredFonts(lastRead.file))
                      ELSE Null

\* a payload was read when it was exactly CACHE_TTL_MS old
CacheTTLWitness ==
  /\ lastRead.done
  /\ lastRead.file.exists
  /\ JSONparse(lastRead.file.content).fetchedAt.t = "number"
  /\ lastRead.at - JSONparse(lastRead.file.content).fetchedAt.n = CACHE_TTL_MS
  /\ lastRead.at > NowInit
  /\ lastRead.result = ArrayOf(<<2, 1>>)

\* C9 as claimed: readCache() called no more than CACHE_TTL_MS after the
\* last writeCache(X) call completed returns X.
RoundTripOfCompleted ==
  (/\ lastRead.done
   /\ lastRead.settled.outcome = "resolved"
   /\ lastRead.at - lastRead.settled.at <= CACHE_TTL_MS) =>
    lastRead.result = ArrayOf(lastRead.settled.fonts)

\* C9, amended: readCache() called when the last writeFile that succeeded
\* wrote X, stamped no more than CACHE_TTL_MS ago, and no failed write cut
\* the file since, returns X; so a later write replaces an earlier one.
RoundTripOfWritten ==
  (/\ lastRead.done
   /\ lastRead.after.ok
   /\ lastRead.at - lastRead.after.fetchedAt <= CACHE_TTL_MS) =>
    lastRead.result = ArrayOf(lastRead.after.fonts)

\* a second write, over the payload of the first, was read back
RoundTripWitness ==
  /\ lastRead.done
  /\ Len(writes) = 2
  /\ lastRead.settled.fonts = <<2, 1>>
  /\ ~lastRead.settled.failed
  /\ lastRead.after.ok
  /\ lastRead.at > lastRead.after.fetchedAt
  /\ lastRead.result = ArrayOf(<<2, 1>>)

\* C10: writeCache() resolves when mkdir or writeFile fails, readCache()
\* does not throw, and a load whose cache read found no readable file goes
\* on to the Request.
CacheFailuresNeverFail ==
  /\ lastSettled.outcome # "rejected"
  /\ \A p \in Loads :
       /\ loads[p].err # "cache error"
       /\ loads[p].cache = "unreadable" =>
            /\ loads[p].pc # "readCache"
            /\ loads[p].netGets = 1

\* a load found no readable file, fetched the catalog, and its writeCache()
\* failed
CacheFailuresWitness ==
  /\ loads[1].cache = "unreadable"
  /\ loads[1].netGets = 1
  /\ loads[1].st = "resolved"
  /\ lastSettled.failed
  /\ lastSettled.outcome = "resolved"

Range(seq) == { seq[i] : i \in 1..Len(seq) }

\* a searchFont call was made: its view is the one handed out
Searched == view.made /\ view.op = "searchFont"

\* C11: for a term that is empty after trimming, searchFont hands out a view
\* with no entries, whatever data and the field are.
BlankSearchMatchesNothing ==
  (Searched /\ trim(view.term) = <<>>) => view.returned = <<>>

\* a term of white space only was searched in a list that has entries
BlankSearchWitness ==
  /\ Searched
  /\ view.term = <<" ", "\t">>
  /\ Len(data) = 4
  /\ view.returned = <<>>

\* the words of a term: what is left between its white space
WordsOf(term) == SelectSeq(SplitOn(term, WhiteSpace), LAMBDA w : w # <<>>)

\* C12: for a term that is not empty after trimming, searchFont includes an
\* entry if and only if the lowercased value of the field (a missing value
\* counting as '') contains every token of the trimmed, lowercased term,
\* split on white space.
ConjunctiveTokenSearch ==
  (Searched /\ trim(view.term) # <<>>) =>
    \A i \in 1..Len(data) :
      data[i] \in Range(view.returned) <=>
        \A w \in Range(WordsOf(toLowerCase(trim(view.term)))) :
          Contains(toLowerCase(FieldValue(data[i], view.field)), w)

\* ws2 holds the words of ws1, in some order
Permuted(ws1, ws2) ==
  /\ Len(ws1) = Len(ws2)
  /\ \E f \in Permutations(1..Len(ws1)) : \A i \in 1..Len(ws1) : ws2[i] = ws1[f[i]]

\* C13: searchFont on a term and on any term that holds the same
\* white-space-separated words in another order gives the same set of
\* entries.
TokenOrderIndependent ==
  (Searched /\ Len(WordsOf(view.term)) >= 2) =>
    \A t \in Terms :
      Permuted(WordsOf(view.term), WordsOf(t)) =>
        Range(searchFont(data, t, view.field)) = Range(view.returned)

\* el[field], as it is
RawValue(el, field) == IF field = "family" THEN el.family ELSE el.category

\* C14 as claimed: searchFont(E[F], F) includes E, for every entry E of the
\* list and every field F.
SelfMatch ==
  Searched =>
    \A i \in 1..Len(data) :
      RawValue(data[i], view.field) = Str(view.term) => data[i] \in Range(view.returned)

\* C14, amended: searchFont(E[F], F) includes E, for every entry E whose
\* field F is a string that is not empty after trimming.
SelfMatchNonBlank ==
  (Searched /\ trim(view.term) # <<>>) =>
    \A i \in 1..Len(data) :
      RawValue(data[i], view.field) = Str(view.term) => data[i] \in Range(view.returned)

\* the family of an entry, in mixed case, was searched and found the entry
SelfMatchWitness ==
  /\ Searched
  /\ view.field = "family"
  /\ view.term = <<"a", "B">>
  /\ SearchFonts[1] \in Range(data)
  /\ SearchFonts[1] \in Range(view.returned)

\* C15: getFont includes an entry if and only if the lowercased value of
\* the field (a missing value counting as '') is the trimmed, lowercased
\* term, character by character; a term that is a proper part of the value
\* matches nothing.
ExactMatch ==
  (view.made /\ view.op = "getFont") =>
    \A i \in 1..Len(data) :
      LET val == toLowerCase(FieldValue(data[i], view.field))
          t == toLowerCase(trim(view.term))
      IN data[i] \in Range(view.returned) <=>
           (Len(val) = Len(t) /\ \A k \in 1..Len(t) : val[k] = t[k])

\* a padded term got the one entry with that category, and not the entry
\* whose category only holds it
ExactMatchWitness ==
  /\ view.made
  /\ view.op = "getFont"
  /\ view.field = "category"
  /\ view.term = <<"\t", "a">>
  /\ Len(data) = 4
  /\ view.returned = <<SearchFonts[4]>>

\* C16: the view searchFont or getFont hands out has _filterField equal to
\* the field argument and _filterTerm equal to the term argument; the list
\* that was only constructed and loaded has neither.
FilterProvenance ==
  /\ _filterField = NoField
  /\ _filterTerm = Undefined
  /\ view.made =>
       /\ view.fontList._filterField = Field(view.field)
       /\ view.fontList._filterTerm = Str(view.term)

\* a view of getFont carries the term as it was passed, white space included
FilterProvenanceWitness ==
  /\ view.made
  /\ view.op = "getFont"
  /\ view.fontList._filterField = Field("category")
  /\ view.fontList._filterTerm = Str(<<" ", "a", " ">>)
  /\ view.returned # <<>>

\* C17: _normalizeVariant lowercases and trims its input (a number counts
\* as its decimal string), maps "400" and "normal" to "regular", "400italic"
\* and "normalitalic" to "italic", and returns anything else as it is after
\* lowercasing and trimming.
VariantNormalized ==
  variant.done =>
    LET given == IF variant.arg.isNumber THEN toString(variant.arg) ELSE variant.arg.s
        v == toLowerCase(trim(given))
    IN variant.result =
         IF v \in { <<"400">>, <<"normal">> } THEN <<"regular">>
         ELSE IF v \in { <<"400", "italic">>, <<"normal", "italic">> } THEN <<"italic">>
         ELSE v

\* ' NORMALitalic' was normalized to 'italic'
VariantNormalizedWitness ==
  /\ variant.done
  /\ variant.arg = StringArg(<<" ", "NORMAL", "italic">>)
  /\ variant.result = <<"italic">>

\* an answer that is a redirect with a Location
Redirecting(answer) == answer.status \in RedirectStatuses /\ answer.location # "none"

\* the length of the chain of redirects the answers start with
ChainLen(answers) ==
  Cardinality({ k \in 1..Len(answers) : \A i \in 1..k : Redirecting(answers[i]) })

\* C18: after a chain of k redirects and a 200 the Request emits success if
\* k <= 3; the fourth redirect of a chain gives an error; redirect starts at
\* 3, goes down by one per redirect followed and not below 0; no Request
\* issues more than 4 GETs.
RedirectBudget ==
  req.made =>
    LET k == ChainLen(req.answers) IN
    /\ req.redirect >= 0
    /\ req.redirect = REDIRECTS - (IF k > REDIRECTS THEN REDIRECTS ELSE k)
    /\ req.gets <= REDIRECTS + 1
    /\ k <= REDIRECTS + 1
    /\ (/\ k <= REDIRECTS
        /\ Len(req.answers) = k + 1
        /\ req.answers[k + 1].status = 200
        /\ req.pc = "done") => req.emitted = <<Success>>
    /\ k = REDIRECTS + 1 =>
         /\ Len(req.answers) = k
         /\ req.pc = "done"
         /\ req.emitted = <<Event("error", "bad response", req.answers[k].status)>>

\* three redirects were followed and the 200 after them gave success
RedirectBudgetWitness ==
  /\ req.made
  /\ ChainLen(req.answers) = 3
  /\ Len(req.answers) = 4
  /\ req.redirect = 0
  /\ req.gets = 4
  /\ req.emitted = <<Success>>

\* C19: on every error path, once the Request has emitted the error its
\* stream is ended.
ErrorEndsStream ==
  (\E i \in 1..Len(req.emitted) : req.emitted[i].ev = "error") => req.ended

\* the last answer was final: no redirect status, or no Location, or the
\* budget was used up by the redirects before it
FinalAnswer ==
  /\ req.answers # <<>>
  /\ LET n == Len(req.answers) IN
     \/ req.answers[n].status \notin RedirectStatuses
     \/ req.answers[n].location = "none"
     \/ n = REDIRECTS + 1

\* C20: for every final response status other than 200 the Request emits an
\* error whose statusCode is that status, and never success.
NonOkStatusIsError ==
  (req.made /\ FinalAnswer /\ req.answers[Len(req.answers)].status # 200) =>
    /\ req.emitted # <<>>
    /\ req.emitted[1].ev = "error"
    /\ req.emitted[1].statusCode = req.answers[Len(req.answers)].status
    /\ \A i \in 1..Len(req.emitted) : req.emitted[i].ev # "success"

\* after one redirect, a 308 without a Location gave an error with
\* statusCode 308
NonOkStatusWitness ==
  /\ req.made
  /\ Len(req.answers) = 2
  /\ req.answers[2] = [status |-> 308, location |-> "none"]
  /\ req.emitted = <<BadResponse(308)>>
  /\ req.ended


\* the uri is one the specification accepts: it parses, with a host and the
\* scheme http or https
ValidUri(uri) ==
  uri.parses /\ uri.hostname # "" /\ uri.protocol \in {"http:", "https:"}

\* C21: a Request constructed with a uri that is not valid issues no GET, has
\* emitted nothing when the constructor returns, and emits exactly the
\* invalid-url error in the later setImmediate turn
InvalidUriIsAsyncError ==
  (req.made /\ ~ValidUri(req.uri)) =>
    /\ req.gets = 0
    /\ req.pc \in {"immediate", "done"}
    /\ req.pc = "immediate" => req.emitted = <<>>
    /\ req.pc = "done" => req.emitted = <<InvalidUrlError>>
InvalidUriWitness ==
  /\ req.made /\ req.uri = Uri(TRUE, "ftp:", "host")
  /\ req.pc = "done" /\ req.emitted = <<InvalidUrlError>> /\ req.gets = 0


\* const norm = this._normalizeVariant(v), for every requested variant
Norm(v) == _normalizeVariant(StringArg(v))
Norms(b) == [j \in 1..Len(b.requested) |-> Norm(b.requested[j])]
\* the file map has an entry under the id
HasEntry(files, norm) == \E i \in 1..Len(files) : files[i].id = norm
\* the batch promise settled after the loop over the variants was entered
BatchSettled(b) == b.pc \in {"returned", "threw"} /\ b.i > 0

\* C22: every variant a batch attempts has an entry in the file map under its
\* normalized id, and a batch asked for [regular, bogus-variant, 700] against
\* a map with regular and 700 that fails nowhere returns the results of
\* regular and 700, in that order
UnknownVariantsSkipped ==
  /\ \A k \in 1..Len(batch.attempts) : HasEntry(batch.fileList, batch.attempts[k])
  /\ ( /\ batch.pc = "returned"
       /\ batch.requested = << <<"regular">>, <<"bogus-variant">>, <<"700">> >>
       /\ HasEntry(batch.fileList, <<"regular">>) /\ HasEntry(batch.fileList, <<"700">>) )
     => [j \in 1..Len(batch.resultList) |-> batch.resultList[j].variant]
          = << <<"regular">>, <<"700">> >>

\* C23: when a batch has settled, the variants with an entry in the file map
\* were attempted once each, in the order they were requested, whatever
\* happened to the earlier ones
EveryVariantAttempted ==
  BatchSettled(batch) =>
    SelectSeq(batch.attempts, LAMBDA n : HasEntry(batch.fileList, n))
      = SelectSeq(Norms(batch), LAMBDA n : HasEntry(batch.fileList, n))

\* C24: a batch in which a variant failed is rejected with one aggregate error
\* that counts the failures and carries the results of the successes; a batch
\* in which none failed returns its results
AggregateWithPartialResults ==
  BatchSettled(batch) =>
    /\ batch.pc = "threw" =>
         /\ batch.thrown.aggregate
         /\ batch.thrown.count = Len(batch.thrown.errors)
         /\ batch.thrown.count >= 1
         /\ batch.thrown.results = batch.resultList
    /\ batch.pc = "returned" => batch.cur.error = "none" /\ Len(batch.errors) = 0

\* C25: when saveAtAsync has settled, results and errors together are as many
\* as the requested variants that have an entry in the file map
ResultsAndErrorsPartition ==
  (BatchSettled(batch) /\ batch.call.op = "saveAtAsync") =>
    Len(batch.resultList) + Len(batch.errors)
      = Len(SelectSeq(Norms(batch), LAMBDA n : HasEntry(batch.fileList, n)))

\* s is t with some of its elements left out
RECURSIVE IsSubSeq(_, _)
IsSubSeq(s, t) ==
  IF s = <<>> THEN TRUE
  ELSE IF t = <<>> THEN FALSE
  ELSE IF Head(s) = Head(t) THEN IsSubSeq(Tail(s), Tail(t))
  ELSE IsSubSeq(s, Tail(t))

\* C26: the variants of the results of saveAtAsync come in the order of the
\* normalized requested variants they are the successes of
ResultOrdering ==
  batch.call.op = "saveAtAsync" =>
    IsSubSeq([j \in 1..Len(batch.resultList) |-> batch.resultList[j].variant],
             SubSeq(Norms(batch), 1, batch.i - 1))
ResultOrderingWitness ==
  /\ batch.call.op = "saveAtAsync" /\ batch.pc = "threw"
  /\ batch.requested = << <<"700">>, <<"regular">>, <<"400">> >>
  /\ batch.errors = <<"download">>
  /\ [j \in 1..Len(batch.resultList) |-> batch.resultList[j].variant]
       = << <<"700">>, <<"regular">> >>

FetchesSequenced == Transferring(batch) <= 1


\* the entries of the list whose family is the name, as the specification
\* puts it: equal after trimming the name and ignoring case
ExactMatches(term) ==
  SelectSeq(data, LAMBDA el : toLowerCase(el.family.s) = toLowerCase(trim(term)))

\* C29: a command retrieves or copies only for names with exactly one exact
\* match, and a download or install that got to the end of its list has
\* retrieved for every one of its names that has exactly one
NoSingleMatchNoRetrieval ==
  /\ \A j \in 1..Len(cli.retrieved) : Len(ExactMatches(cli.retrieved[j])) = 1
  /\ (cli.pc = "exit" /\ cli.exit # "load error" /\ cli.command # "copy") =>
       /\ Len(cli.reported) + Len(cli.retrieved) = Len(cli.terms)
       /\ \A k \in 1..Len(cli.terms) :
            Len(ExactMatches(cli.terms[k])) = 1 =>
              \E j \in 1..Len(cli.retrieved) : cli.retrieved[j] = cli.terms[k]
NoSingleMatchWitness ==
  /\ cli.command = "download" /\ cli.pc = "exit"
  /\ cli.arg = <<"a", ",", "a", "B">>
  /\ cli.reported = << <<"a">> >>
  /\ cli.retrieved = << <<"a", "B">> >>


\* the detail fetch failed: no response, a status that is not 200, or a body
\* that is not JSON with a variants list
FetchFailed(answer) ==
  ~answer.connected \/ answer.statusCode # 200 \/ ~answer.parses \/ ~answer.listed

\* C31: once the detail fetch of a batch has failed, the batch is rejected
\* with the error of the fetch, and it has attempted no variant, staged or
\* placed no file and holds no result
FileMapFailureIsTerminal ==
  (batch.pc \notin {"none", "map"} /\ FetchFailed(batch.answer)) =>
    /\ batch.pc = "threw"
    /\ ~batch.thrown.aggregate
    /\ batch.thrown.errors \in {<<"api connection">>, <<"api status">>, <<"api parse">>}
    /\ batch.attempts = <<>>
    /\ batch.cur = NoAttempt
    /\ batch.resultList = <<>>
    /\ Transferring(batch) = 0
FileMapFailureWitness ==
  /\ batch.pc = "threw"
  /\ batch.answer = NoVariantsList
  /\ batch.call.op = "installAsync"
  /\ batch.call.variants = VariantList(<< <<"regular">> >>)
  /\ batch.thrown = Raw("api parse")


\* C32: a Request has settled _mimeType before it emits success and has
\* emitted success before it ends its stream after a 200, and _mimeType does
\* not change once the stream has ended
MimeSettledBeforeEnd ==
  /\ [](/\ (\E i \in 1..Len(req.emitted) : req.emitted[i] = Success) => req.sniffed
        /\ (req.ended /\ req.sniffed) => req.emitted = <<Success>>
        /\ ~req.sniffed => req._mimeType = "undefined")
  /\ [][req.sniffed => (req'.sniffed /\ req'._mimeType = req._mimeType)]_vars
MimeSettledWitness ==
  /\ req.ended /\ req.sniffed /\ req._mimeType = "font/woff2"
  /\ req.emitted = <<Success>>
  /\ Len(req.answers) = 2

\* C39: a Request emits at most one event, a success or an error
OneOutcome == Len(req.emitted) <= 1


\* C34: the view searchFont or getFont hands out has no load of its own
\* under way
SearchStartsNoLoad == view.made => ~view.fontList.loading

\* C35: the view holds the entries it held when it was handed to the callback
ViewsAreStable == view.made => view.fontList.data = view.returned

\* the catalog a load that ends in this step populates from: the fonts of
\* the cache entry, or the parsed body, which writeCache is called with
LoadedCatalog(p) ==
  IF loads'[p].fromCache = "true" THEN readCache(disk, now).v
  ELSE writes'[Len(writes')].fonts

\* C36: when a load ends with a populated list, data holds one entry per
\* record of the catalog of that load, in catalog order, and nothing else
ModelReflectsLatestLoad ==
  [][\A p \in Loads :
       (Settles(p) /\ loads'[p].emitted = "success") =>
         data' = [i \in 1..Len(LoadedCatalog(p)) |-> googleFont(LoadedCatalog(p)[i])]]_vars

\* C37: searchFont and getFont leave data as it is, and the entries they
\* hand to the callback are a subsequence of data
SearchLeavesCatalog ==
  /\ [](view.made => IsSubSeq(view.returned, data))
  /\ [][data' = data]_vars
SearchLeavesCatalogWitness ==
  /\ view.made /\ view.op = "searchFont"
  /\ Len(data) = 4
  /\ Len(view.returned) = 2

\* C38: every pending load has a step left that settles it: it waits for
\* the cache read or for the outcome of its Request
EveryLoadSettles ==
  \A p \in Loads : loads[p].st = "pending" => loads[p].pc \in {"readCache", "download"}


\* an operation holds a staged file: from createWriteStream to the rename
Staging(j) == stage.ops[j].pc \in {"downloading", "move"}

\* C33: two operations running at once never stage under one path, and
\* when both have ended each has put a file of its own under the path it
\* returns
StagingPathsPerOperation ==
  /\ \A j, k \in DOMAIN stage.ops :
       (j # k /\ Staging(j) /\ Staging(k)) =>
         stage.ops[j].filePath # stage.ops[k].filePath
  /\ \A j \in DOMAIN stage.ops :
       /\ stage.ops[j].pc # "threw"
       /\ (stage.ops[j].pc = "returned" /\ stage.ops[j].destFolder # stage.ops[3 - j].destFolder)
            => InodeAt(stage.files, stage.ops[j].newPath) = stage.ops[j].fd

\* C40: once the failure of a variant is reported, no file of it is left
\* in the staging directory
NoStagedLeftovers == batch.cur.error # "none" => ~batch.cur.staged

====
